---- MODULE Spec2Model ----
(***************************************************************************)
(* AIP server: the compact AICF-RPC wire codec, the JSON-RPC envelope, the *)
(* tool/context registries, the dispatcher of both protocols and the       *)
(* session store.                                                          *)
(*                                                                         *)
(* Strings are sequences of one-character strings.  A JavaScript value is  *)
(* a record [t |-> type tag, v |-> ...]; an object is a sequence of        *)
(* [k |-> key, v |-> value] pairs in insertion order.                      *)
(***************************************************************************)
EXTENDS Integers, Sequences, FiniteSets, TLC

VARIABLES tools, registered, latest, contexts, sessions, now, last, codec,
          inflight, issued, alloc, client

vars == <<tools, registered, latest, contexts, sessions, now, last, codec,
          inflight, issued, alloc, client>>

serverVars == <<tools, registered, latest, contexts, sessions, now, last>>

\* the requests in progress on an asynchronous server, the port allocation
\* and the client
peerVars == <<inflight, issued, alloc, client>>

-----------------------------------------------------------------------------
(* Bounds of the model *)

\* longest raw wire text enumerated after the command word
MaxLen == 5

\* longest decoded string that is encoded and decoded again
MaxStrLen == 2

\* longest numeric-looking argument field enumerated
MaxNumLen == 3

\* most sessions the store is let to hold
MaxSessions == 1

-----------------------------------------------------------------------------
(* Characters and string helpers *)

BS == "\\"
PIPE == "|"
NL == "\n"
TAB == "\t"
SPACE == " "
QUOTE == "\""

RECURSIVE SeqsUpTo(_, _)
SeqsUpTo(S, n) ==
    IF n = 0 THEN {<<>>}
    ELSE LET shorter == SeqsUpTo(S, n - 1)
         IN  shorter \cup {Append(s, c) : s \in {x \in shorter : Len(x) = n - 1}, c \in S}

StartsWith(s, p) == Len(s) >= Len(p) /\ SubSeq(s, 1, Len(p)) = p

EndsWith(s, p) == Len(s) >= Len(p) /\ SubSeq(s, Len(s) - Len(p) + 1, Len(s)) = p

Contains(s, p) == \E i \in 1..(Len(s) - Len(p) + 1) : SubSeq(s, i, i + Len(p) - 1) = p

RECURSIVE Join(_, _)
Join(parts, sep) ==
    IF Len(parts) = 0 THEN <<>>
    ELSE IF Len(parts) = 1 THEN parts[1]
    ELSE parts[1] \o sep \o Join(Tail(parts), sep)

RECURSIVE Flatten(_)
Flatten(parts) == IF parts = <<>> THEN <<>> ELSE Head(parts) \o Flatten(Tail(parts))

Map(f(_), s) == [i \in 1..Len(s) |-> f(s[i])]

Digits == {"0", "1", "2", "3", "4", "5", "6", "7", "8", "9"}

IsWhitespace(c) == c \in {SPACE, NL, TAB}

\* String.prototype.trim
RECURSIVE TrimLeft(_)
TrimLeft(s) == IF s # <<>> /\ IsWhitespace(Head(s)) THEN TrimLeft(Tail(s)) ELSE s

RECURSIVE TrimRight(_)
TrimRight(s) ==
    IF s # <<>> /\ IsWhitespace(s[Len(s)]) THEN TrimRight(SubSeq(s, 1, Len(s) - 1)) ELSE s

Trim(s) == TrimRight(TrimLeft(s))

\* String.prototype.toUpperCase, on the letters the model's inputs use
UpperChar(c) ==
    CASE c = "a" -> "A" [] c = "c" -> "C" [] c = "l" -> "L" [] c = "i" -> "I"
      [] c = "s" -> "S" [] c = "t" -> "T" [] c = "n" -> "N" [] c = "f" -> "F"
      [] c = "o" -> "O" [] c = "x" -> "X" [] OTHER -> c

ToUpperCase(s) == Map(UpperChar, s)

\* String.prototype.replace(/c/g, rep) for a one-character pattern
RECURSIVE ReplaceChar(_, _, _)
ReplaceChar(s, c, rep) ==
    IF s = <<>> THEN <<>>
    ELSE (IF Head(s) = c THEN rep ELSE <<Head(s)>>) \o ReplaceChar(Tail(s), c, rep)

\* String.prototype.replace(/\\c/g, rep): backslash followed by c, leftmost first
RECURSIVE ReplaceEscape(_, _, _)
ReplaceEscape(s, c, rep) ==
    IF s = <<>> THEN <<>>
    ELSE IF Len(s) >= 2 /\ s[1] = BS /\ s[2] = c
         THEN rep \o ReplaceEscape(SubSeq(s, 3, Len(s)), c, rep)
         ELSE <<Head(s)>> \o ReplaceEscape(Tail(s), c, rep)

-----------------------------------------------------------------------------
(* String literals of the source *)

S_CALL == <<"C", "A", "L", "L">>
S_LIST == <<"L", "I", "S", "T">>
S_INFO == <<"I", "N", "F", "O">>
S_OK == <<"O", "K">>
S_ERR == <<"E", "R", "R">>
S_TOOLS == <<"T", "O", "O", "L", "S">>
S_TOOL == <<"T", "O", "O", "L">>
S_true == <<"t", "r", "u", "e">>
S_false == <<"f", "a", "l", "s", "e">>
S_null == <<"n", "u", "l", "l">>
S_undefined == <<"u", "n", "d", "e", "f", "i", "n", "e", "d">>
S_any == <<"a", "n", "y">>
S_unknown == <<"u", "n", "k", "n", "o", "w", "n">>
S_400 == <<"4", "0", "0">>
S_404 == <<"4", "0", "4">>
S_500 == <<"5", "0", "0">>

M_InputMustBeString ==
    <<"I","n","v","a","l","i","d"," ","A","I","C","F"," ","r","e","q","u","e","s","t",":"," ",
      "i","n","p","u","t"," ","m","u","s","t"," ","b","e"," ","a"," ","n","o","n","-","e","m","p","t","y"," ",
      "s","t","r","i","n","g">>
M_EmptyInput ==
    <<"I","n","v","a","l","i","d"," ","A","I","C","F"," ","r","e","q","u","e","s","t",":"," ",
      "e","m","p","t","y"," ","i","n","p","u","t">>
M_InvalidCommand ==
    <<"I","n","v","a","l","i","d"," ","A","I","C","F"," ","c","o","m","m","a","n","d",":"," ">>
M_InfoRequiresTool ==
    <<"I","N","F","O"," ","c","o","m","m","a","n","d"," ","r","e","q","u","i","r","e","s"," ",
      "t","o","o","l"," ","n","a","m","e">>
M_CallRequiresTool ==
    <<"C","A","L","L"," ","c","o","m","m","a","n","d"," ","r","e","q","u","i","r","e","s"," ",
      "t","o","o","l"," ","n","a","m","e">>
M_MissingToolName ==
    <<"M","i","s","s","i","n","g"," ","t","o","o","l"," ","n","a","m","e">>
M_ToolNotFoundColon ==
    <<"T","o","o","l"," ","n","o","t"," ","f","o","u","n","d",":"," ">>
M_ToolNotFound == <<"T","o","o","l"," ","n","o","t"," ","f","o","u","n","d">>
M_ToolExecutionFailed ==
    <<"T","o","o","l"," ","e","x","e","c","u","t","i","o","n"," ","f","a","i","l","e","d">>
M_UnknownCommand ==
    <<"U","n","k","n","o","w","n"," ","c","o","m","m","a","n","d",":"," ">>
M_UnknownError == <<"U","n","k","n","o","w","n"," ","e","r","r","o","r">>
M_InvalidAICFRequest ==
    <<"I","n","v","a","l","i","d"," ","A","I","C","F"," ","r","e","q","u","e","s","t">>
M_InvalidJSONRPCRequest ==
    <<"I","n","v","a","l","i","d"," ","J","S","O","N","-","R","P","C"," ","r","e","q","u","e","s","t">>
M_MethodNotFoundColon ==
    <<"M","e","t","h","o","d"," ","n","o","t"," ","f","o","u","n","d",":"," ">>
M_MissingParamsTool ==
    <<"M","i","s","s","i","n","g"," ","p","a","r","a","m","s"," ","f","o","r"," ",
      "t","o","o","l"," ","i","n","v","o","c","a","t","i","o","n">>
M_MissingParamsContext ==
    <<"M","i","s","s","i","n","g"," ","p","a","r","a","m","s"," ","f","o","r"," ",
      "c","o","n","t","e","x","t"," ","g","e","t">>
M_ContextNotAvailableColon ==
    <<"C","o","n","t","e","x","t"," ","n","o","t"," ","a","v","a","i","l","a","b","l","e",":"," ">>

-----------------------------------------------------------------------------
(* JavaScript values *)

JStr(s) == [t |-> "string", v |-> s]
JNum(s) == [t |-> "number", v |-> s]
JBool(b) == [t |-> "boolean", v |-> IF b THEN S_true ELSE S_false]
JNull == [t |-> "null", v |-> <<>>]
JUndefined == [t |-> "undefined", v |-> <<>>]
JObject(pairs) == [t |-> "object", v |-> pairs]
JArray(items) == [t |-> "array", v |-> items]

\* typeof x
TypeOf(x) == IF x.t \in {"object", "array", "null"} THEN "object" ELSE x.t

\* /^-?\d+(\.\d+)?$/
IsNumeric(s) ==
    LET body == IF s # <<>> /\ Head(s) = "-" THEN Tail(s) ELSE s
        dots == {i \in 1..Len(body) : body[i] = "."}
    IN  /\ body # <<>>
        /\ \A i \in 1..Len(body) : body[i] \in Digits \cup {"."}
        /\ Cardinality(dots) <= 1
        /\ \A i \in dots : i > 1 /\ i < Len(body)

RECURSIVE StripLeadingZeros(_)
StripLeadingZeros(s) ==
    IF Len(s) > 1 /\ Head(s) = "0" THEN StripLeadingZeros(Tail(s)) ELSE s

RECURSIVE StripTrailingZeros(_)
StripTrailingZeros(s) ==
    IF s # <<>> /\ s[Len(s)] = "0" THEN StripTrailingZeros(SubSeq(s, 1, Len(s) - 1)) ELSE s

\* String(Number(s)) for a numeric text s: the shortest decimal text of the value
\* (exact for the short texts of the model: below 1e21, above 1e-7, under 16 digits)
NumberToString(s) ==
    LET neg == Head(s) = "-"
        body == IF neg THEN Tail(s) ELSE s
        dot == IF \E i \in 1..Len(body) : body[i] = "."
               THEN CHOOSE i \in 1..Len(body) : body[i] = "."
               ELSE Len(body) + 1
        int == StripLeadingZeros(SubSeq(body, 1, dot - 1))
        frac == StripTrailingZeros(SubSeq(body, dot + 1, Len(body)))
        zero == int = <<"0">> /\ frac = <<>>
    IN  (IF neg /\ ~zero THEN <<"-">> ELSE <<>>)
        \o int \o (IF frac = <<>> THEN <<>> ELSE <<".">> \o frac)

\* the JSON number grammar: -?(0|[1-9]\d*)(\.\d+)?   (no exponent in the model's alphabet)
IsJSONNumber(s) ==
    /\ IsNumeric(s)
    /\ LET body == IF Head(s) = "-" THEN Tail(s) ELSE s
       IN  Len(body) >= 2 /\ body[1] = "0" => body[2] = "."

\* JSON.parse on the texts the model's alphabet can spell: numbers, {} and
\* one-element or empty arrays; [ok |-> FALSE] is a SyntaxError
RECURSIVE JSONParse(_)
JSONParse(s) ==
    IF s = <<"{", "}">> THEN [ok |-> TRUE, value |-> JObject(<<>>)]
    ELSE IF s = <<"[", "]">> THEN [ok |-> TRUE, value |-> JArray(<<>>)]
    ELSE IF Len(s) > 2 /\ Head(s) = "[" /\ s[Len(s)] = "]"
         THEN LET inner == JSONParse(SubSeq(s, 2, Len(s) - 1))
              IN  IF inner.ok THEN [ok |-> TRUE, value |-> JArray(<<inner.value>>)]
                  ELSE [ok |-> FALSE, value |-> JUndefined]
    ELSE IF IsJSONNumber(s) THEN [ok |-> TRUE, value |-> JNum(NumberToString(s))]
    ELSE [ok |-> FALSE, value |-> JUndefined]

\* a string literal of JSON.stringify
JSONQuote(s) ==
    <<QUOTE>>
    \o ReplaceChar(ReplaceChar(ReplaceChar(ReplaceChar(s, BS, <<BS, BS>>), QUOTE, <<BS, QUOTE>>),
                               NL, <<BS, "n">>), TAB, <<BS, "t">>)
    \o <<QUOTE>>

\* JSON.stringify(x) for x other than undefined: an undefined property is left
\* out of an object and is null inside an array
RECURSIVE JSONStringify(_)
JSONStringify(x) ==
    CASE x.t = "string" -> JSONQuote(x.v)
      [] x.t \in {"number", "boolean"} -> x.v
      [] x.t \in {"null", "undefined"} -> S_null
      [] x.t = "array" ->
            <<"[">> \o Join([i \in 1..Len(x.v) |-> JSONStringify(x.v[i])], <<",">>) \o <<"]">>
      [] x.t = "object" ->
            LET kept == SelectSeq(x.v, LAMBDA p : p.v.t # "undefined")
            IN  <<"{">>
                \o Join([i \in 1..Len(kept) |->
                            JSONQuote(kept[i].k) \o <<":">> \o JSONStringify(kept[i].v)], <<",">>)
                \o <<"}">>

-----------------------------------------------------------------------------
(* AICF-RPC parser *)

\* the loop of splitByPipe from index i on
RECURSIVE SplitLoop(_, _, _, _, _)
SplitLoop(input, i, parts, current, escaped) ==
    IF i > Len(input) THEN [parts |-> parts, current |-> current]
    ELSE LET char == input[i]
         IN  IF escaped THEN SplitLoop(input, i + 1, parts, Append(current, char), FALSE)
             ELSE IF char = BS THEN SplitLoop(input, i + 1, parts, current, TRUE)
             ELSE IF char = PIPE THEN SplitLoop(input, i + 1, Append(parts, current), <<>>, FALSE)
             ELSE SplitLoop(input, i + 1, parts, Append(current, char), FALSE)

\* a splitter that ends a field at every pipe
splitByPipe_EveryPipe(input) ==
    LET scan[i \in 0..Len(input)] ==
            IF i = 0 THEN [parts |-> <<>>, current |-> <<>>]
            ELSE IF input[i] = PIPE
                 THEN [parts |-> Append(scan[i - 1].parts, scan[i - 1].current), current |-> <<>>]
                 ELSE [parts |-> scan[i - 1].parts, current |-> Append(scan[i - 1].current, input[i])]
        end == scan[Len(input)]
    IN  IF input = <<>> THEN <<>> ELSE Append(end.parts, end.current)

\* a splitter that keeps the last field only when it is not empty
splitByPipe_NoTrailing(input) ==
    LET end == SplitLoop(input, 1, <<>>, <<>>, FALSE)
    IN  IF end.current # <<>> THEN Append(end.parts, end.current) ELSE end.parts

splitByPipe(input) ==
    LET end == SplitLoop(input, 1, <<>>, <<>>, FALSE)
    IN  IF end.current # <<>> \/ EndsWith(input, <<PIPE>>)
        THEN Append(end.parts, end.current)
        ELSE end.parts

unescapeString(str) ==
    ReplaceEscape(
        ReplaceEscape(
            ReplaceEscape(
                ReplaceEscape(str, "n", <<NL>>),
                "t", <<TAB>>),
            PIPE, <<PIPE>>),
        BS, <<BS>>)

\* a typing that takes only whole numbers for numbers
parseArgument_IntegersOnly(arg) ==
    LET unescaped == unescapeString(arg)
    IN  IF \/ StartsWith(unescaped, <<"{">>) /\ EndsWith(unescaped, <<"}">>)
           \/ StartsWith(unescaped, <<"[">>) /\ EndsWith(unescaped, <<"]">>)
        THEN LET parsed == JSONParse(unescaped)
             IN  IF parsed.ok THEN parsed.value ELSE JStr(unescaped)
        ELSE IF IsNumeric(unescaped) /\ \A i \in 1..Len(unescaped) : unescaped[i] # "."
        THEN JNum(NumberToString(unescaped))
        ELSE IF unescaped = S_true THEN JBool(TRUE)
        ELSE IF unescaped = S_false THEN JBool(FALSE)
        ELSE IF unescaped = S_null THEN JNull
        ELSE IF unescaped = S_undefined THEN JUndefined
        ELSE JStr(unescaped)

parseArgument(arg) ==
    LET unescaped == unescapeString(arg)
    IN  IF \/ StartsWith(unescaped, <<"{">>) /\ EndsWith(unescaped, <<"}">>)
           \/ StartsWith(unescaped, <<"[">>) /\ EndsWith(unescaped, <<"]">>)
        THEN LET parsed == JSONParse(unescaped)
             IN  IF parsed.ok THEN parsed.value ELSE JStr(unescaped)
        ELSE IF IsNumeric(unescaped) THEN JNum(NumberToString(unescaped))
        ELSE IF unescaped = S_true THEN JBool(TRUE)
        ELSE IF unescaped = S_false THEN JBool(FALSE)
        ELSE IF unescaped = S_null THEN JNull
        ELSE IF unescaped = S_undefined THEN JUndefined
        ELSE JStr(unescaped)

\* a thrown Error and a returned AICFRequest; tool and arguments are undefined
\* where the request object has no such field
Thrown(msg) == [ok |-> FALSE, message |-> msg]

AICFRequest(command, hasTool, tool, hasArguments, arguments) ==
    [ok |-> TRUE, command |-> command, hasTool |-> hasTool, tool |-> tool,
     hasArguments |-> hasArguments, arguments |-> arguments]

\* a parser that lets a CALL or INFO without a tool-name field through
parseAICFRequest_Lenient(input) ==
    IF input = <<>> THEN Thrown(M_InputMustBeString)
    ELSE LET parts == splitByPipe(Trim(input))
         IN  IF Len(parts) = 0 THEN Thrown(M_EmptyInput)
             ELSE LET command == ToUpperCase(parts[1])
                      name == IF Len(parts) < 2 THEN <<>> ELSE unescapeString(parts[2])
                  IN  IF command \notin {S_CALL, S_LIST, S_INFO}
                      THEN Thrown(M_InvalidCommand \o command)
                      ELSE IF command = S_LIST
                      THEN AICFRequest(S_LIST, FALSE, <<>>, FALSE, <<>>)
                      ELSE IF command = S_INFO
                      THEN AICFRequest(S_INFO, TRUE, name, FALSE, <<>>)
                      ELSE AICFRequest(S_CALL, TRUE, name, TRUE,
                                       Map(parseArgument, SubSeq(parts, 3, Len(parts))))

parseAICFRequest(input) ==
    IF input = <<>> THEN Thrown(M_InputMustBeString)
    ELSE LET parts == splitByPipe(Trim(input))
         IN  IF Len(parts) = 0 THEN Thrown(M_EmptyInput)
             ELSE LET command == ToUpperCase(parts[1])
                  IN  IF command \notin {S_CALL, S_LIST, S_INFO}
                      THEN Thrown(M_InvalidCommand \o command)
                      ELSE IF command = S_LIST
                      THEN AICFRequest(S_LIST, FALSE, <<>>, FALSE, <<>>)
                      ELSE IF command = S_INFO
                      THEN IF Len(parts) < 2 THEN Thrown(M_InfoRequiresTool)
                           ELSE AICFRequest(S_INFO, TRUE, unescapeString(parts[2]), FALSE, <<>>)
                      ELSE IF Len(parts) < 2 THEN Thrown(M_CallRequiresTool)
                           ELSE AICFRequest(S_CALL, TRUE, unescapeString(parts[2]), TRUE,
                                            Map(parseArgument, SubSeq(parts, 3, Len(parts))))

-----------------------------------------------------------------------------
(* AICF-RPC serializer *)

escapeString(str) ==
    ReplaceChar(
        ReplaceChar(
            ReplaceChar(
                ReplaceChar(str, BS, <<BS, BS>>),
                PIPE, <<BS, PIPE>>),
            NL, <<BS, "n">>),
        TAB, <<BS, "t">>)

serializeArgument(arg) ==
    CASE arg.t = "null" -> S_null
      [] arg.t = "undefined" -> S_undefined
      [] arg.t = "boolean" -> arg.v
      [] arg.t = "number" -> arg.v
      [] arg.t = "string" -> escapeString(arg.v)
      [] OTHER -> escapeString(JSONStringify(arg))

serializeAICFRequest(request) ==
    LET head == <<request.command>>
        withTool == IF request.hasTool /\ request.tool # <<>>
                    THEN Append(head, escapeString(request.tool))
                    ELSE head
        parts == IF request.hasArguments /\ Len(request.arguments) > 0
                 THEN withTool \o Map(serializeArgument, request.arguments)
                 ELSE withTool
    IN  Join(parts, <<PIPE>>)

serializeData(data) ==
    CASE data.t \in {"null", "undefined"} -> <<>>
      [] data.t = "string" -> escapeString(data.v)
      [] data.t \in {"number", "boolean"} -> data.v
      [] OTHER -> escapeString(JSONStringify(data))

\* the decimal text of a natural number
RECURSIVE DecimalText(_)
DecimalText(n) ==
    LET digit == <<"0", "1", "2", "3", "4", "5", "6", "7", "8", "9">>[(n % 10) + 1]
    IN  IF n < 10 THEN <<digit>> ELSE Append(DecimalText(n \div 10), digit)

\* the decimal text of an error code
CodeText(code) == IF code < 0 THEN <<"-">> \o DecimalText(0 - code) ELSE DecimalText(code)

createSuccessResponse(data) ==
    [success |-> TRUE, data |-> data, hasError |-> FALSE, code |-> 0, message |-> <<>>]

createErrorResponse(code, message) ==
    [success |-> FALSE, data |-> JUndefined, hasError |-> TRUE, code |-> code, message |-> message]

serializeAICFResponse(response) ==
    IF response.success
    THEN S_OK \o <<PIPE>> \o serializeData(response.data)
    ELSE LET code == IF response.hasError /\ response.code # 0 THEN response.code ELSE 500
             message == escapeString(IF response.hasError /\ response.message # <<>>
                                     THEN response.message ELSE M_UnknownError)
         IN  S_ERR \o <<PIPE>> \o CodeText(code) \o <<PIPE>> \o message

serializeToolList(toolNames) ==
    S_TOOLS \o <<PIPE>> \o Join(Map(escapeString, toolNames), <<PIPE>>)

serializeToolInfo(name, description, args) ==
    Join(<<S_TOOL, escapeString(name), escapeString(description)>>
         \o [i \in 1..Len(args) |-> escapeString(args[i].name \o <<":">> \o args[i].type)],
         <<PIPE>>)

isAICFFormat(input) ==
    /\ input # <<>>
    /\ LET trimmed == Trim(input)
       IN  \/ StartsWith(trimmed, S_CALL \o <<PIPE>>)
           \/ StartsWith(trimmed, S_LIST)
           \/ StartsWith(trimmed, S_INFO \o <<PIPE>>)

-----------------------------------------------------------------------------
(* Errors and the JSON-RPC envelope *)

PARSE_ERROR == -32700
INVALID_REQUEST == -32600
METHOD_NOT_FOUND == -32601
INVALID_PARAMS == -32602
INTERNAL_ERROR == -32603
NOT_FOUND == 404
TOOL_EXECUTION_FAILED == 1001
CONTEXT_NOT_AVAILABLE == 1002

\* 24 * 60 * 60 * 1000 ms
SessionTTL == 86400000

S_jsonrpc20 == <<"2", ".", "0">>
S_jsonrpc10 == <<"1", ".", "0">>
S_aip_handshake == <<"a", "i", "p", ".", "h", "a", "n", "d", "s", "h", "a", "k", "e">>
S_aip_capabilities_list == <<"a", "i", "p", ".", "c", "a", "p", "a", "b", "i", "l", "i", "t", "i", "e", "s", ".", "l", "i", "s", "t">>
S_aip_tool_invoke == <<"a", "i", "p", ".", "t", "o", "o", "l", ".", "i", "n", "v", "o", "k", "e">>
S_aip_context_get == <<"a", "i", "p", ".", "c", "o", "n", "t", "e", "x", "t", ".", "g", "e", "t">>
S_aip_other == <<"a", "i", "p", ".", "o", "t", "h", "e", "r">>
S_sessionDash == <<"s", "e", "s", "s", "i", "o", "n", "-">>

\* a thrown value: an AIPError (code, message, data), another Error (message)
\* or a value that is no Error
AIPError(code, message, data) ==
    [isError |-> TRUE, isAIPError |-> TRUE, code |-> code, message |-> message, data |-> data]

PlainError(message) ==
    [isError |-> TRUE, isAIPError |-> FALSE, code |-> 0, message |-> message, data |-> JUndefined]

NonError(value) ==
    [isError |-> FALSE, isAIPError |-> FALSE, code |-> 0, message |-> <<>>, data |-> value]

\* the `originalError` attached as error data
\* (an Error is identified by its message, any other thrown value is itself)
S_originalError == <<"o", "r", "i", "g", "i", "n", "a", "l", "E", "r", "r", "o", "r">>

OriginalError(e) ==
    JObject(<<[k |-> S_originalError, v |-> IF e.isError THEN JStr(e.message) ELSE e.data]>>)

\* `${x}` in a template literal
TemplateText(x) == IF x.t \in {"string", "number", "boolean"} THEN x.v
               ELSE IF x.t = "null" THEN S_null
               ELSE IF x.t = "undefined" THEN S_undefined
               ELSE JSONStringify(x)

\* an unknown method reported as a generic internal error
MethodNotFoundError_Internal(method) ==
    AIPError(INTERNAL_ERROR, M_UnknownError, JUndefined)

MethodNotFoundError(method) ==
    AIPError(METHOD_NOT_FOUND, M_MethodNotFoundColon \o method, JUndefined)

InvalidParamsError(message) == AIPError(INVALID_PARAMS, message, JUndefined)

NotFoundError(resource) ==
    AIPError(NOT_FOUND, <<"N", "o", "t", " ", "f", "o", "u", "n", "d", ":", " ">> \o resource, JUndefined)

\* a tool failure reported as a generic internal error
ToolExecutionError_Internal(tool, message, data) ==
    AIPError(INTERNAL_ERROR, M_ToolExecutionFailed, data)

ToolExecutionError(tool, message, data) ==
    AIPError(TOOL_EXECUTION_FAILED,
             M_ToolExecutionFailed \o <<":", " ">> \o TemplateText(tool) \o <<" ", "-", " ">> \o message,
             data)

ContextNotAvailableError(context, data) ==
    AIPError(CONTEXT_NOT_AVAILABLE, M_ContextNotAvailableColon \o TemplateText(context), data)

createJSONRPCResponse(id, result) ==
    [jsonrpc |-> S_jsonrpc20, id |-> id, hasResult |-> TRUE, result |-> result,
     hasError |-> FALSE, code |-> 0, message |-> <<>>, data |-> JUndefined]

createJSONRPCError(id, code, message, data) ==
    [jsonrpc |-> S_jsonrpc20, id |-> id, hasResult |-> FALSE, result |-> JUndefined,
     hasError |-> TRUE, code |-> code, message |-> message, data |-> data]

\* a request object: every field is a JavaScript value (undefined when missing),
\* params is [present |-> FALSE] or the params object; isObject is FALSE for a
\* request that is null or no object
validateJSONRPCRequest(obj) ==
    /\ obj.isObject
    /\ obj.jsonrpc = JStr(S_jsonrpc20)
    /\ obj.id.t \in {"string", "number"}
    /\ obj.method.t = "string"

-----------------------------------------------------------------------------
(* Registries: a Map keeps its keys in the order of their first insertion *)

MapHas(map, name) == \E i \in 1..Len(map) : map[i].name = name

MapGet(map, name) == map[CHOOSE i \in 1..Len(map) : map[i].name = name]

\* a registry whose overwritten key moves to the end
MapSet_MoveToEnd(map, entry) ==
    Append(SelectSeq(map, LAMBDA e : e.name # entry.name), entry)

\* a registry that keeps the first entry stored under a key
MapSet_KeepFirst(map, entry) ==
    IF MapHas(map, entry.name) THEN map ELSE Append(map, entry)

MapSet(map, entry) ==
    IF MapHas(map, entry.name)
    THEN [i \in 1..Len(map) |-> IF map[i].name = entry.name THEN entry ELSE map[i]]
    ELSE Append(map, entry)

MapKeys(map) == [i \in 1..Len(map) |-> map[i].name]

\* Object.keys(schema.properties): the property names in declaration order
\* (property names are identifiers, never array-index keys)
ObjectKeys(properties) == [i \in 1..Len(properties) |-> properties[i].name]

-----------------------------------------------------------------------------
(* Handlers: external functions; what a call does is the environment's choice *)

S_boom == <<"b", "o", "o", "m">>
S_oops == <<"o", "o", "p", "s">>

HandlerOutcomes ==
    {[kind |-> "echo", value |-> JUndefined, message |-> <<>>],
     [kind |-> "value", value |-> JNum(<<"5">>), message |-> <<>>],
     [kind |-> "throwError", value |-> JUndefined, message |-> S_boom],
     [kind |-> "throwValue", value |-> JStr(S_oops), message |-> <<>>]}

NoThrow == NonError(JUndefined)

Returned(value, calls) == [threw |-> FALSE, value |-> value, error |-> NoThrow, calls |-> calls]

Threw(error, calls) == [threw |-> TRUE, value |-> JUndefined, error |-> error, calls |-> calls]

\* one call of a registered handler, logged with the arguments it received
InvokeHandler(kind, entry, args, ho) ==
    LET call == [kind |-> kind, name |-> entry.name, handler |-> entry.handler,
                 args |-> args, outcome |-> ho.kind]
    IN  CASE ho.kind = "echo" -> Returned(args, <<call>>)
          [] ho.kind = "value" -> Returned(ho.value, <<call>>)
          [] ho.kind = "throwError" -> Threw(PlainError(ho.message), <<call>>)
          [] ho.kind = "throwValue" -> Threw(NonError(ho.value), <<call>>)

-----------------------------------------------------------------------------
(* AIPServer *)

S_serverName == <<"s", "r", "v">>
S_serverVersion == <<"1", ".", "0", ".", "0">>

Pair(key, value) == [k |-> key, v |-> value]

\* the field of a JavaScript object
Field(object, key) == (CHOOSE i \in 1..Len(object.v) : object.v[i].k = key)

FieldValue(object, key) == object.v[Field(object, key)].v

getServerInfo(toolMap, contextMap) ==
    JObject(<<Pair(<<"n", "a", "m", "e">>, JStr(S_serverName)),
              Pair(<<"v", "e", "r", "s", "i", "o", "n">>, JStr(S_serverVersion)),
              Pair(<<"c", "a", "p", "a", "b", "i", "l", "i", "t", "i", "e", "s">>,
                   JArray((IF Len(toolMap) > 0 THEN <<JStr(<<"t", "o", "o", "l">>)>> ELSE <<>>)
                          \o (IF Len(contextMap) > 0 THEN <<JStr(<<"c", "o", "n", "t", "e", "x", "t">>)>> ELSE <<>>))),
              Pair(<<"m", "e", "t", "a", "d", "a", "t", "a">>, JUndefined)>>)

\* a registered capability object, as far as the model describes it
CapabilityValue(type, entry) ==
    JObject(<<Pair(<<"t", "y", "p", "e">>, JStr(type)), Pair(<<"n", "a", "m", "e">>, JStr(entry.name)),
              Pair(<<"d", "e", "s", "c", "r", "i", "p", "t", "i", "o", "n">>, JStr(entry.description))>>)

getCapabilities(toolMap, contextMap) ==
    JArray([i \in 1..Len(toolMap) |-> CapabilityValue(<<"t", "o", "o", "l">>, toolMap[i])]
           \o [i \in 1..Len(contextMap) |-> CapabilityValue(<<"c", "o", "n", "t", "e", "x", "t">>, contextMap[i])])

\* `session-${Date.now()}-${random suffix}`
generateSessionId(time, suffix) == S_sessionDash \o DecimalText(time) \o <<"-">> \o suffix

\* new Date(ms).toISOString(), written as the millisecond count followed by Z
ISOString(ms) == Append(DecimalText(ms), "Z")

\* new Date(text).getTime(): the millisecond count the text was written from
RECURSIVE DateGetTime(_)
DateGetTime(text) ==
    IF text = <<>> THEN 0
    ELSE IF text[Len(text)] = "Z" THEN DateGetTime(SubSeq(text, 1, Len(text) - 1))
    ELSE DateGetTime(SubSeq(text, 1, Len(text) - 1)) * 10
         + (CHOOSE d \in 0..9 : DecimalText(d) = <<text[Len(text)]>>)

\* a session record: its id (the key it is stored under) and its expiry text
SessionValue(session) ==
    JObject(<<Pair(<<"i", "d">>, JStr(session.name)), Pair(<<"e", "x", "p", "i", "r", "e", "s">>, JStr(session.expires))>>)

\* a handshake that keeps no session but the one it creates
handleHandshake_OnlyNewest(toolMap, contextMap, sessionMap, time, suffix) ==
    LET sessionId == generateSessionId(time, suffix)
        session == [name |-> sessionId, expires |-> ISOString(time + SessionTTL)]
    IN  [sessions |-> <<session>>,
         value |-> JObject(<<Pair(<<"s", "e", "s", "s", "i", "o", "n">>, SessionValue(session))>>)]

\* returns the response and the session store after the call
handleHandshake(toolMap, contextMap, sessionMap, time, suffix) ==
    LET sessionId == generateSessionId(time, suffix)
        session == [name |-> sessionId, expires |-> ISOString(time + SessionTTL)]
    IN  [sessions |-> MapSet(sessionMap, session),
         value |-> JObject(<<Pair(<<"v", "e", "r", "s", "i", "o", "n">>, JStr(S_serverVersion)),
                             Pair(<<"s", "e", "r", "v", "e", "r">>, getServerInfo(toolMap, contextMap)),
                             Pair(<<"s", "e", "s", "s", "i", "o", "n">>, SessionValue(session))>>)]

\* a sweep that also removes the sessions expiring at this very instant
cleanupSessions_Inclusive(sessionMap, time) ==
    SelectSeq(sessionMap, LAMBDA session : ~(DateGetTime(session.expires) <= time))

\* the session store after a sweep at `time`
cleanupSessions(sessionMap, time) ==
    SelectSeq(sessionMap,
              LAMBDA session : ~(session.expires # <<>> /\ DateGetTime(session.expires) < time))

handleCapabilitiesList(toolMap, contextMap) ==
    JObject(<<Pair(<<"c", "a", "p", "a", "b", "i", "l", "i", "t", "i", "e", "s">>, getCapabilities(toolMap, contextMap))>>)

\* params: [present, tool, arguments, context], each field a JavaScript value
\* an invocation that hands the handler only the arguments its schema declares
handleToolInvoke_Remapped(toolMap, params, ho) ==
    IF ~(params.tool.t = "string" /\ MapHas(toolMap, params.tool.v))
    THEN Threw(ToolExecutionError(params.tool, M_ToolNotFound, JUndefined), <<>>)
    ELSE LET tool == MapGet(toolMap, params.tool.v)
             declared == {tool.schema.properties[i].name : i \in 1..Len(tool.schema.properties)}
             kept == IF params.arguments.t = "object"
                     THEN JObject(SelectSeq(params.arguments.v, LAMBDA e : e.k \in declared))
                     ELSE params.arguments
             result == InvokeHandler("tool", tool, kept, ho)
         IN  IF result.threw
             THEN Threw(ToolExecutionError(params.tool,
                                           IF result.error.isError THEN result.error.message
                                           ELSE M_UnknownError,
                                           OriginalError(result.error)),
                        result.calls)
             ELSE result

handleToolInvoke(toolMap, params, ho) ==
    IF ~(params.tool.t = "string" /\ MapHas(toolMap, params.tool.v))
    THEN Threw(ToolExecutionError(params.tool, M_ToolNotFound, JUndefined), <<>>)
    ELSE LET tool == MapGet(toolMap, params.tool.v)
             result == InvokeHandler("tool", tool, params.arguments, ho)
         IN  IF result.threw
             THEN Threw(ToolExecutionError(params.tool,
                                           IF result.error.isError THEN result.error.message
                                           ELSE M_UnknownError,
                                           OriginalError(result.error)),
                        result.calls)
             ELSE result

\* a context lookup that lets the supplier's failure through as it is
handleContextGet_Propagate(contextMap, params, ho) ==
    IF ~(params.context.t = "string" /\ MapHas(contextMap, params.context.v))
    THEN Threw(ContextNotAvailableError(params.context, JUndefined), <<>>)
    ELSE InvokeHandler("context", MapGet(contextMap, params.context.v), JUndefined, ho)

handleContextGet(contextMap, params, ho) ==
    IF ~(params.context.t = "string" /\ MapHas(contextMap, params.context.v))
    THEN Threw(ContextNotAvailableError(params.context, JUndefined), <<>>)
    ELSE LET context == MapGet(contextMap, params.context.v)
             result == InvokeHandler("context", context, JUndefined, ho)
         IN  IF result.threw
             THEN Threw(ContextNotAvailableError(params.context, OriginalError(result.error)),
                        result.calls)
             ELSE result

Resolved(response, sessionMap, calls) ==
    [status |-> "resolved", response |-> response, sessions |-> sessionMap, calls |-> calls]

Rejected(error, sessionMap, calls) ==
    [status |-> "rejected",
     response |-> createJSONRPCError(JUndefined, error.code, error.message, error.data),
     sessions |-> sessionMap, calls |-> calls]

\* the catch block of handleRequest
CatchRequestError_Rethrow(request, error, sessionMap, calls) ==
    Rejected(error, sessionMap, calls)

CatchRequestError(request, error, sessionMap, calls) ==
    IF error.isAIPError
    THEN Resolved(createJSONRPCError(request.id, error.code, error.message, error.data),
                  sessionMap, calls)
    ELSE Resolved(createJSONRPCError(request.id, INTERNAL_ERROR,
                                     IF error.isError THEN error.message ELSE M_UnknownError,
                                     OriginalError(error)),
                  sessionMap, calls)

handleRequest(toolMap, contextMap, sessionMap, time, request, ho, suffix) ==
    IF ~validateJSONRPCRequest(request)
    THEN Resolved(createJSONRPCError(IF request.isObject /\ request.id.t \notin {"null", "undefined"}
                                     THEN request.id ELSE JStr(S_unknown),
                                     INVALID_REQUEST, M_InvalidJSONRPCRequest, JUndefined),
                  sessionMap, <<>>)
    ELSE CASE request.method.v = S_aip_handshake ->
                LET shake == handleHandshake(toolMap, contextMap, sessionMap, time, suffix)
                IN  Resolved(createJSONRPCResponse(request.id, shake.value), shake.sessions, <<>>)
           [] request.method.v = S_aip_capabilities_list ->
                Resolved(createJSONRPCResponse(request.id,
                                               handleCapabilitiesList(toolMap, contextMap)),
                         sessionMap, <<>>)
           [] request.method.v = S_aip_tool_invoke ->
                IF ~request.params.present
                THEN CatchRequestError(request, InvalidParamsError(M_MissingParamsTool),
                                       sessionMap, <<>>)
                ELSE LET result == handleToolInvoke(toolMap, request.params, ho)
                     IN  IF result.threw
                         THEN CatchRequestError(request, result.error, sessionMap, result.calls)
                         ELSE Resolved(createJSONRPCResponse(request.id, result.value),
                                       sessionMap, result.calls)
           [] request.method.v = S_aip_context_get ->
                IF ~request.params.present
                THEN CatchRequestError(request, InvalidParamsError(M_MissingParamsContext),
                                       sessionMap, <<>>)
                ELSE LET result == handleContextGet(contextMap, request.params, ho)
                     IN  IF result.threw
                         THEN CatchRequestError(request, result.error, sessionMap, result.calls)
                         ELSE Resolved(createJSONRPCResponse(request.id, result.value),
                                       sessionMap, result.calls)
           [] OTHER ->
                CatchRequestError(request, MethodNotFoundError(request.method.v), sessionMap, <<>>)

\* schema: [hasProperties, properties], properties a sequence of
\* [name, hasType, type] in declaration order
\* a mapping that gives every declared property a value
convertArrayToObject_PadNull(args, schema) ==
    IF ~schema.hasProperties
    THEN IF Len(args) = 1 /\ TypeOf(args[1]) = "object" /\ args[1].t # "array"
         THEN args[1]
         ELSE JObject(<<>>)
    ELSE LET propNames == ObjectKeys(schema.properties)
         IN  JObject([i \in 1..Len(propNames) |->
                        Pair(propNames[i], IF i <= Len(args) THEN args[i] ELSE JNull)])

convertArrayToObject(args, schema) ==
    IF ~schema.hasProperties
    THEN IF Len(args) = 1 /\ TypeOf(args[1]) = "object" /\ args[1].t # "array"
         THEN args[1]
         ELSE JObject(<<>>)
    ELSE LET propNames == ObjectKeys(schema.properties)
             count == IF Len(args) < Len(propNames) THEN Len(args) ELSE Len(propNames)
         IN  JObject([i \in 1..count |-> Pair(propNames[i], args[i])])

\* an argument list that leaves out the properties declared without a type
ToolInfoArgs_TypedOnly(schema) ==
    IF schema.hasProperties
    THEN LET typed == SelectSeq(schema.properties, LAMBDA prop : prop.hasType)
         IN  [i \in 1..Len(typed) |-> [name |-> typed[i].name, type |-> typed[i].type]]
    ELSE <<>>

\* the INFO branch: the argument list read from the schema
ToolInfoArgs(schema) ==
    IF schema.hasProperties
    THEN [i \in 1..Len(schema.properties) |->
            [name |-> schema.properties[i].name,
             type |-> IF schema.properties[i].hasType /\ schema.properties[i].type # <<>>
                      THEN schema.properties[i].type ELSE S_any]]
    ELSE <<>>

\* what handleAICFRequest resolves to: the text sent, and the AICFResponse object
\* it was serialized from (LIST and a successful INFO serialize no such object)
AICFResult(text, calls) ==
    [status |-> "resolved", text |-> text, direct |-> TRUE,
     reply |-> createSuccessResponse(JUndefined), calls |-> calls]

AICFReply(response, calls) ==
    [status |-> "resolved", text |-> serializeAICFResponse(response), direct |-> FALSE,
     reply |-> response, calls |-> calls]

\* the response for a tool name the registry does not hold
ToolNotFound_NoName(name) == createErrorResponse(404, M_ToolNotFound)

ToolNotFound(name) == createErrorResponse(404, M_ToolNotFoundColon \o name)

\* the try/catch around the tool call of the CALL branch
CallTool(tool, arguments, ho) ==
    LET argsObject == convertArrayToObject(arguments, tool.schema)
        result == InvokeHandler("tool", tool, argsObject, ho)
    IN  IF result.threw
        THEN AICFReply(createErrorResponse(500, IF result.error.isError
                                                THEN result.error.message
                                                ELSE M_ToolExecutionFailed),
                       result.calls)
        ELSE AICFReply(createSuccessResponse(result.value), result.calls)

handleAICFRequest(toolMap, input, ho) ==
    LET request == parseAICFRequest(input)
    IN  IF ~request.ok
        THEN AICFReply(createErrorResponse(400, request.message), <<>>)
        ELSE IF request.command = S_LIST
        THEN AICFResult(serializeToolList(MapKeys(toolMap)), <<>>)
        ELSE IF request.command = S_INFO
        THEN IF request.tool = <<>>
             THEN AICFReply(createErrorResponse(400, M_MissingToolName), <<>>)
             ELSE IF ~MapHas(toolMap, request.tool)
             THEN AICFReply(ToolNotFound(request.tool), <<>>)
             ELSE LET toolInfo == MapGet(toolMap, request.tool)
                  IN  AICFResult(serializeToolInfo(toolInfo.name, toolInfo.description,
                                                   ToolInfoArgs(toolInfo.schema)),
                                 <<>>)
        ELSE IF request.tool = <<>>
             THEN AICFReply(createErrorResponse(400, M_MissingToolName), <<>>)
             ELSE IF ~MapHas(toolMap, request.tool)
             THEN AICFReply(ToolNotFound(request.tool), <<>>)
             ELSE CallTool(MapGet(toolMap, request.tool), request.arguments, ho)

-----------------------------------------------------------------------------
(* The inputs of the server model *)

N_echo == <<"e", "c", "h", "o", ".", "t", "o", "o", "l">>
N_pipe == <<"a", PIPE, "b">>
N_unknown == <<"u", "n", "k", "n", "o", "w", "n", ".", "t", "o", "o", "l">>
N_ctx == <<"p", "r", "o", "j", "e", "c", "t">>
N_noctx == <<"n", "o", "t", "h", "i", "n", "g">>
S_desc == <<"E", "c", "h", "o">>
S_msg == <<"m", "s", "g">>
S_count == <<"c", "o", "u", "n", "t">>
S_flag == <<"f", "l", "a", "g">>
S_hello == <<"h", "e", "l", "l", "o">>
S_42 == <<"4", "2">>

ToolNames == {N_echo, N_pipe}

RequestNames == ToolNames \cup {N_unknown}

ContextNames == {N_ctx}

Handlers == {"h1"}

P_msg == [name |-> S_msg, hasType |-> TRUE, type |-> <<"s", "t", "r", "i", "n", "g">>]
P_count == [name |-> S_count, hasType |-> TRUE, type |-> <<"n", "u", "m", "b", "e", "r">>]
P_flag == [name |-> S_flag, hasType |-> FALSE, type |-> <<>>]

Schemas ==
    {[hasProperties |-> FALSE, properties |-> <<>>],
     [hasProperties |-> TRUE, properties |-> <<>>],
     [hasProperties |-> TRUE, properties |-> <<P_msg>>],
     [hasProperties |-> TRUE, properties |-> <<P_msg, P_count, P_flag>>]}

\* argument fields as a client writes them on the wire
\* the schemas a tool is registered with
SchemasOf(name) ==
    IF name = N_echo THEN Schemas
    ELSE {[hasProperties |-> TRUE, properties |-> <<P_msg>>]}

ArgLists ==
    {<<>>, <<S_hello>>, <<S_hello, S_42>>, <<S_hello, S_42, S_true>>,
     <<S_hello, S_42, S_true, S_null>>, <<<<"{", "}">>>>, <<S_null>>}

WireRequest(command, name, fields) ==
    Join(<<command, escapeString(name)>> \o fields, <<PIPE>>)

ServerInputs ==
    {S_LIST, <<"l", "i", "s", "t">>, <<>>, S_CALL, S_INFO, S_CALL \o <<PIPE>>, S_INFO \o <<PIPE>>, <<"P", "I", "N", "G", PIPE, "a">>}
    \cup {WireRequest(S_INFO, n, <<>>) : n \in RequestNames}
    \cup {WireRequest(S_CALL, n, a) : n \in RequestNames, a \in ArgLists}

NoParams ==
    [present |-> FALSE, tool |-> JUndefined, arguments |-> JUndefined, context |-> JUndefined]

ToolParams(tool, arguments) ==
    [present |-> TRUE, tool |-> tool, arguments |-> arguments, context |-> JUndefined]

ContextParams(context) ==
    [present |-> TRUE, tool |-> JUndefined, arguments |-> JUndefined, context |-> context]

NamedArgs ==
    {JObject(<<>>), JObject(<<Pair(<<"a">>, JNum(<<"2">>)), Pair(<<"b">>, JNum(<<"3">>))>>)}

RPCRequest(jsonrpc, id, method, params) ==
    [isObject |-> TRUE, jsonrpc |-> jsonrpc, id |-> id, method |-> method, params |-> params]

NoRequest ==
    [isObject |-> FALSE, jsonrpc |-> JUndefined, id |-> JUndefined, method |-> JUndefined,
     params |-> NoParams]

RPCIds == {JStr(<<"7">>), JNum(<<"1">>)}

ValidRPCRequests ==
    {RPCRequest(JStr(S_jsonrpc20), id, JStr(m), NoParams) :
        id \in RPCIds,
        m \in {S_aip_handshake, S_aip_capabilities_list, S_aip_tool_invoke, S_aip_context_get,
               S_aip_other, <<>>}}
    \cup {RPCRequest(JStr(S_jsonrpc20), id, JStr(S_aip_tool_invoke), ToolParams(t, a)) :
            id \in RPCIds, t \in {JStr(n) : n \in RequestNames} \cup {JUndefined}, a \in NamedArgs}
    \cup {RPCRequest(JStr(S_jsonrpc20), id, JStr(S_aip_context_get), ContextParams(JStr(c))) :
            id \in RPCIds, c \in {N_ctx, N_noctx}}

InvalidRPCRequests ==
    {NoRequest,
     RPCRequest(JStr(S_jsonrpc10), JStr(<<"7">>), JStr(S_aip_capabilities_list), NoParams),
     RPCRequest(JUndefined, JStr(<<"7">>), JStr(S_aip_capabilities_list), NoParams),
     RPCRequest(JStr(S_jsonrpc20), JUndefined, JStr(S_aip_capabilities_list), NoParams),
     RPCRequest(JStr(S_jsonrpc20), JNull, JStr(S_aip_capabilities_list), NoParams),
     RPCRequest(JStr(S_jsonrpc20), JBool(TRUE), JStr(S_aip_capabilities_list), NoParams),
     RPCRequest(JStr(S_jsonrpc20), JStr(<<"7">>), JNum(<<"1">>), NoParams),
     RPCRequest(JStr(S_jsonrpc20), JStr(<<"7">>), JUndefined, NoParams)}

RPCRequests == ValidRPCRequests \cup InvalidRPCRequests

RandomSuffixes == {<<"k">>, <<"z">>}

-----------------------------------------------------------------------------
(* The server as a state machine *)

NoResponse == createJSONRPCError(JUndefined, 0, <<>>, JUndefined)

Idle ==
    [op |-> "none", input |-> <<>>, request |-> NoRequest, status |-> "none",
     text |-> <<>>, direct |-> FALSE, reply |-> createSuccessResponse(JUndefined),
     response |-> NoResponse, calls |-> <<>>, swept |-> <<>>]

CodecIdle ==
    [pc |-> "idle", request |-> AICFRequest(<<>>, FALSE, <<>>, FALSE, <<>>), input |-> <<>>,
     fields |-> <<>>, parsed |-> Thrown(<<>>), response |-> createSuccessResponse(JUndefined),
     output |-> <<>>]

\* most requests in progress at once on the asynchronous server
MaxInFlight == 2

Slots == 1..MaxInFlight

\* a slot no request occupies
FreeSlot ==
    [pc |-> "free", request |-> NoRequest, hasTimeout |-> FALSE, fate |-> "none",
     response |-> NoResponse]

\* allocatePort before it is called
AllocIdle ==
    [pc |-> "idle", preferredPort |-> 0, maxAttempts |-> 0, killSameService |-> FALSE,
     attempts |-> 0, currentPort |-> 0, pid |-> 0, probes |-> <<>>,
     port |-> 0, wasInUse |-> FALSE, killedProcess |-> FALSE, previousPid |-> 0,
     message |-> <<>>]

\* AIPClient after construction; `connect` is how the most recent connect()
\* ended, `call` what the most recent invokeTool / getContext did, `sent` the
\* requests sent so far
ClientIdle ==
    [pc |-> "idle", connected |-> FALSE, hasSession |-> FALSE, session |-> <<>>,
     capabilities |-> "none", connect |-> "none",
     call |-> [op |-> "none", outcome |-> "none", message |-> <<>>], sent |-> 0]

PeersIdle ==
    /\ inflight = [slot \in Slots |-> FreeSlot]
    /\ issued = <<>>
    /\ alloc = AllocIdle
    /\ client = ClientIdle

\* history kept over the server's lifetime: for every (kind, name) registered
\* so far, what the most recent registration under that name gave, and the
\* other handlers that earlier registrations under that name gave
NoneRecorded == [key \in {} |-> {}]

Recorded(history, kind, name, given) ==
    [key \in DOMAIN history \cup {<<kind, name>>} |->
        IF key = <<kind, name>>
        THEN [given |-> given,
              earlier |-> IF key \in DOMAIN history
                          THEN (history[key].earlier \cup {history[key].given.handler})
                               \ {given.handler}
                          ELSE {}]
        ELSE history[key]]

Init ==
    /\ tools = <<>>
    /\ contexts = <<>>
    /\ sessions = <<>>
    /\ now = 0
    /\ last = Idle
    /\ registered = <<>>
    /\ latest = NoneRecorded
    /\ PeersIdle
    /\ codec = CodecIdle

registerTool(toolMap, capability, handler) ==
    MapSet(toolMap, [name |-> capability.name, description |-> capability.description,
                     schema |-> capability.schema, handler |-> handler])

registerContext(contextMap, capability, handler) ==
    MapSet(contextMap, [name |-> capability.name, description |-> capability.description,
                        handler |-> handler])

\* the server takes up a new operation only when no request is in progress
Ready == last.op = "none"

\* whether the request reaches a registered handler, whose behaviour then matters
AICFReachesHandler(toolMap, input) ==
    LET request == parseAICFRequest(input)
    IN  request.ok /\ request.command = S_CALL /\ MapHas(toolMap, request.tool)

RPCReachesHandler(toolMap, contextMap, request) ==
    /\ validateJSONRPCRequest(request)
    /\ request.params.present
    /\ \/ /\ request.method.v = S_aip_tool_invoke
          /\ request.params.tool.t = "string"
          /\ MapHas(toolMap, request.params.tool.v)
       \/ /\ request.method.v = S_aip_context_get
          /\ request.params.context.t = "string"
          /\ MapHas(contextMap, request.params.context.v)

DefaultOutcome == [kind |-> "echo", value |-> JUndefined, message |-> <<>>]

RegisterTool ==
    /\ Ready
    /\ \E name \in ToolNames, handler \in Handlers :
       \E schema \in SchemasOf(name) :
        /\ tools' = registerTool(tools, [name |-> name, description |-> S_desc,
                                         schema |-> schema], handler)
        /\ registered' = IF \E i \in 1..Len(registered) : registered[i] = name
                         THEN registered ELSE Append(registered, name)
        /\ UNCHANGED <<latest, contexts, sessions, now, last, codec, peerVars>>

RegisterContext ==
    /\ Ready
    /\ \E name \in ContextNames, handler \in Handlers :
        /\ contexts' = registerContext(contexts, [name |-> name, description |-> S_desc],
                                       handler)
        /\ UNCHANGED <<tools, registered, latest, sessions, now, last, codec, peerVars>>

HandleAICFRequest ==
    /\ Ready
    /\ \E input \in ServerInputs :
        \E ho \in IF AICFReachesHandler(tools, input) THEN HandlerOutcomes ELSE {DefaultOutcome} :
            LET result == handleAICFRequest(tools, input, ho)
            IN  /\ last' = [Idle EXCEPT !.op = "aicf", !.input = input,
                                        !.status = result.status, !.text = result.text,
                                        !.direct = result.direct, !.reply = result.reply,
                                        !.calls = result.calls]
                /\ UNCHANGED <<tools, registered, latest, contexts, sessions, now, codec, peerVars>>

HandleRequest ==
    /\ Ready
    /\ \E request \in RPCRequests :
        \E ho \in IF RPCReachesHandler(tools, contexts, request)
                  THEN HandlerOutcomes ELSE {DefaultOutcome},
           suffix \in IF request.method = JStr(S_aip_handshake)
                      THEN RandomSuffixes ELSE {<<>>} :
            LET result == handleRequest(tools, contexts, sessions, now, request, ho, suffix)
            IN  /\ Len(result.sessions) <= MaxSessions
                /\ sessions' = result.sessions
                /\ last' = [Idle EXCEPT !.op = "rpc", !.request = request,
                                        !.status = result.status,
                                        !.response = result.response, !.calls = result.calls]
                /\ UNCHANGED <<tools, registered, latest, contexts, now, codec, peerVars>>

\* the transport sends the response and the request is over
Respond ==
    /\ ~Ready
    /\ last' = Idle
    /\ UNCHANGED <<tools, registered, latest, contexts, sessions, now, codec, peerVars>>

Next == RegisterTool \/ RegisterContext \/ HandleAICFRequest \/ HandleRequest \/ Respond

Spec == Init /\ [][Next]_vars

-----------------------------------------------------------------------------
(* The codec on its own: a client encodes a request, the server side splits *)
(* and parses the wire text, and the parsed request is serialized again     *)

RawChars == {"a", BS, PIPE, "n", NL}

DecodedChars == {"a", BS, PIPE, "n", NL, "t", TAB}

NumberChars == {"-", "0", "1", "."}

RawTails == SeqsUpTo(RawChars, MaxLen)

DecodedStrings == SeqsUpTo(DecodedChars, MaxStrLen)

TypedFields ==
    (SeqsUpTo(NumberChars, MaxNumLen) \ {<<>>})
    \cup {S_true, S_false, S_null, S_undefined, <<"{", "}">>, <<"[", "]">>, <<"[", "1", "]">>, <<"[", "1", ".", "0", "]">>, <<"[", "0", "1", "]">>,
          <<"[", "[", "]", "]">>, <<"{", "a", "}">>, <<"[", "a">>}

E_roundTrip == <<"C", "A", "L", "L", PIPE, "f", "i", "g", "m", "a", ".", "g", "e", "t", "F", "i", "l", "e", PIPE, "a", "b", "c", "1", "2", "3", PIPE, "1", ".", "0">>
E_escapedPipe == <<"C", "A", "L", "L", PIPE, "t", "o", "o", "l", PIPE, "w", "i", "t", "h", BS, PIPE, "p", "i", "p", "e">>
E_escapedPipes == <<"C", "A", "L", "L", PIPE, "t", "o", "o", "l", PIPE, "a", "r", "g", BS, PIPE, "w", "i", "t", "h", BS, PIPE, "p", "i", "p", "e", "s">>
E_infoRoundTrip == <<"I", "N", "F", "O", PIPE, "f", "i", "g", "m", "a", ".", "g", "e", "t", "F", "i", "l", "e">>
S_withPipe == <<"w", "i", "t", "h", PIPE, "p", "i", "p", "e">>

E_trailingPipe == <<"C", "A", "L", "L", PIPE, "t", "o", "o", "l", PIPE>>

ExampleInputs == {E_roundTrip, E_escapedPipe, E_escapedPipes, E_infoRoundTrip, E_trailingPipe}

WireInputs ==
    {S_CALL \o <<PIPE>> \o b : b \in RawTails}
    \cup {S_INFO \o <<PIPE>> \o b : b \in RawTails}
    \cup {w \o t : w \in {S_LIST, S_CALL, S_INFO, <<"c", "a", "l", "l">>, <<"P", "I", "N", "G">>},
                   t \in {<<>>, <<PIPE>>, <<PIPE, "a">>, <<NL>>}}
    \cup {S_CALL \o <<PIPE, "a", PIPE>> \o f : f \in TypedFields}
    \cup ExampleInputs
    \cup {<<>>, <<NL>>, <<BS>>, <<PIPE>>}

ClientRequests ==
    {AICFRequest(S_CALL, TRUE, n, TRUE, <<>>) : n \in DecodedStrings \ {<<>>}}
    \cup {AICFRequest(S_INFO, TRUE, n, FALSE, <<>>) : n \in DecodedStrings \ {<<>>}}
    \cup {AICFRequest(S_CALL, TRUE, <<"a">>, TRUE, <<JStr(x)>>) : x \in DecodedStrings}

\* payloads and failures a response is built from
S_key == <<"k", "e", "y">>

Payloads ==
    {JNull, JUndefined, JBool(TRUE), JBool(FALSE),
     JNum(<<"5">>), JNum(<<"-", "0", ".", "5">>),
     JObject(<<>>), JArray(<<>>),
     JObject(<<[k |-> S_key, v |-> JStr(<<"x", PIPE, "y">>)], [k |-> <<"n">>, v |-> JNum(<<"1">>)]>>),
     JArray(<<JStr(<<"a">>), JNull, JBool(TRUE)>>)}
    \cup {JStr(x) : x \in DecodedStrings}

ErrorCodes == {0, 400, 404, 500, 1001}

ErrorMessages == DecodedStrings \cup {S_boom}

Responses ==
    {createSuccessResponse(d) : d \in Payloads}
    \cup {createErrorResponse(c, m) : c \in ErrorCodes, m \in ErrorMessages}

CodecInit ==
    /\ tools = <<>>
    /\ contexts = <<>>
    /\ sessions = <<>>
    /\ now = 0
    /\ last = Idle
    /\ registered = <<>>
    /\ latest = NoneRecorded
    /\ PeersIdle
    /\ \/ \E input \in WireInputs : codec = [CodecIdle EXCEPT !.pc = "input", !.input = input]
       \/ \E request \in ClientRequests :
            codec = [CodecIdle EXCEPT !.pc = "request", !.request = request]
       \/ \E response \in Responses :
            codec = [CodecIdle EXCEPT !.pc = "response", !.response = response]

\* the client writes its request on the wire
CodecEncode ==
    /\ codec.pc = "request"
    /\ codec' = [codec EXCEPT !.pc = "input", !.input = serializeAICFRequest(codec.request)]
    /\ UNCHANGED <<serverVars, peerVars>>

\* the receiver splits the text into fields and parses it
CodecParse ==
    /\ codec.pc = "input"
    /\ codec' = [codec EXCEPT !.pc = "parsed",
                              !.fields = splitByPipe(Trim(codec.input)),
                              !.parsed = parseAICFRequest(codec.input)]
    /\ UNCHANGED <<serverVars, peerVars>>

\* a parsed request is written on the wire again
CodecSerialize ==
    /\ codec.pc = "parsed"
    /\ codec.parsed.ok
    /\ codec' = [codec EXCEPT !.pc = "serialized",
                              !.output = serializeAICFRequest(codec.parsed)]
    /\ UNCHANGED <<serverVars, peerVars>>

\* the server writes a response on the wire
CodecRespond ==
    /\ codec.pc = "response"
    /\ codec' = [codec EXCEPT !.pc = "sent", !.output = serializeAICFResponse(codec.response)]
    /\ UNCHANGED <<serverVars, peerVars>>

CodecNext == CodecEncode \/ CodecParse \/ CodecSerialize \/ CodecRespond

CodecSpec == CodecInit /\ [][CodecNext]_vars

-----------------------------------------------------------------------------
(* The server over its lifetime: the host registers and re-registers its    *)
(* capabilities, requests of both protocols arrive, time passes and the     *)
(* host sweeps the session store                                            *)

\* most sessions the store is let to hold over the server's lifetime
MaxStored == 2

\* instants at which something happens: start-up, a millisecond later, and the
\* same two instants a day on
TimePoints == {0, 1, SessionTTL, SessionTTL + 1}

S_desc2 == <<"E", "c", "h", "o", "2">>

LifeHandlers == {"h1", "h2"}

\* two registrations of the same name: another handler, another description
LifeRegistrations ==
    {[description |-> S_desc, handler |-> "h1"], [description |-> S_desc2, handler |-> "h2"]}

LifeSchema == [hasProperties |-> TRUE, properties |-> <<P_msg>>]

\* a handshake that carries client metadata
ClientParams ==
    [present |-> TRUE, tool |-> JUndefined, arguments |-> JUndefined, context |-> JUndefined]

HandshakeRequests ==
    {RPCRequest(JStr(S_jsonrpc20), JStr(<<"7">>), JStr(S_aip_handshake), params) :
        params \in {NoParams, ClientParams}}

LifeRequests ==
    HandshakeRequests
    \cup {RPCRequest(JStr(S_jsonrpc20), JStr(<<"7">>), JStr(m), NoParams) :
            m \in {S_aip_capabilities_list, S_aip_other}}
    \cup {RPCRequest(JStr(S_jsonrpc20), JStr(<<"7">>), JStr(S_aip_tool_invoke),
                     ToolParams(JStr(n), JObject(<<>>))) : n \in {N_echo, N_unknown}}
    \cup {RPCRequest(JStr(S_jsonrpc20), JStr(<<"7">>), JStr(S_aip_context_get),
                     ContextParams(JStr(c))) : c \in {N_ctx, N_noctx}}
    \cup {NoRequest}

LifeInputs ==
    {S_LIST, <<>>, S_CALL,
     WireRequest(S_INFO, N_echo, <<>>), WireRequest(S_INFO, N_unknown, <<>>),
     WireRequest(S_CALL, N_echo, <<S_hello>>), WireRequest(S_CALL, N_unknown, <<>>)}

\* what a handler does when it is called here: it returns or it throws
LifeOutcomes == {ho \in HandlerOutcomes : ho.kind \in {"value", "throwError"}}

LifeRegisterTool ==
    /\ Ready
    /\ \E registration \in LifeRegistrations :
       LET handler == registration.handler
           description == registration.description
       IN
        /\ tools' = registerTool(tools, [name |-> N_echo, description |-> description,
                                         schema |-> LifeSchema], handler)
        /\ registered' = IF \E i \in 1..Len(registered) : registered[i] = N_echo
                         THEN registered ELSE Append(registered, N_echo)
        /\ latest' = Recorded(latest, "tool", N_echo,
                              [description |-> description, schema |-> LifeSchema,
                               handler |-> handler])
        /\ UNCHANGED <<contexts, sessions, now, last, codec, peerVars>>

LifeRegisterContext ==
    /\ Ready
    /\ \E handler \in LifeHandlers :
        /\ contexts' = registerContext(contexts, [name |-> N_ctx, description |-> S_desc],
                                       handler)
        /\ latest' = Recorded(latest, "context", N_ctx,
                              [description |-> S_desc, handler |-> handler])
        /\ UNCHANGED <<tools, registered, sessions, now, last, codec, peerVars>>

LifeAICFRequest ==
    /\ Ready
    /\ \E input \in LifeInputs :
        \E ho \in IF AICFReachesHandler(tools, input) THEN LifeOutcomes ELSE {DefaultOutcome} :
            LET result == handleAICFRequest(tools, input, ho)
            IN  /\ last' = [Idle EXCEPT !.op = "aicf", !.input = input,
                                        !.status = result.status, !.text = result.text,
                                        !.direct = result.direct, !.reply = result.reply,
                                        !.calls = result.calls]
                /\ UNCHANGED <<tools, registered, latest, contexts, sessions, now, codec, peerVars>>

LifeRequest ==
    /\ Ready
    /\ \E request \in LifeRequests :
        \E ho \in IF RPCReachesHandler(tools, contexts, request)
                  THEN LifeOutcomes ELSE {DefaultOutcome},
           suffix \in IF request.method = JStr(S_aip_handshake)
                      THEN RandomSuffixes ELSE {<<>>} :
            LET result == handleRequest(tools, contexts, sessions, now, request, ho, suffix)
            IN  /\ Len(result.sessions) <= MaxStored
                /\ sessions' = result.sessions
                /\ last' = [Idle EXCEPT !.op = "rpc", !.request = request,
                                        !.status = result.status,
                                        !.response = result.response, !.calls = result.calls]
                /\ UNCHANGED <<tools, registered, latest, contexts, now, codec, peerVars>>

\* time passes
Tick ==
    /\ Ready
    /\ \E later \in TimePoints :
        /\ later > now
        /\ now' = later
    /\ UNCHANGED <<tools, registered, latest, contexts, sessions, last, codec, peerVars>>

\* the host calls cleanupSessions(); the ids it removed are kept as history
CleanupSessions ==
    /\ Ready
    /\ sessions' = cleanupSessions(sessions, now)
    /\ last' = [Idle EXCEPT !.op = "sweep", !.status = "resolved",
                            !.swept = MapKeys(SelectSeq(sessions,
                                                        LAMBDA session : ~MapHas(sessions', session.name)))]
    /\ UNCHANGED <<tools, registered, latest, contexts, now, codec, peerVars>>

LifeNext ==
    \/ LifeRegisterTool
    \/ LifeRegisterContext
    \/ LifeAICFRequest
    \/ LifeRequest
    \/ Tick
    \/ CleanupSessions
    \/ Respond

LifeSpec == Init /\ [][LifeNext]_vars

-----------------------------------------------------------------------------
(* The server as an asynchronous program: handleRequest runs up to its first *)
(* await, and continues when the awaited promise settles; requests overlap   *)
(* at the awaits, and cleanupSessions runs in between                        *)

\* an aip.tool.invoke request; the per-invocation timeout it may carry is kept
\* beside it in the slot
InvokeRequest ==
    RPCRequest(JStr(S_jsonrpc20), JStr(<<"7">>), JStr(S_aip_tool_invoke),
               ToolParams(JStr(N_echo), JObject(<<>>)))

HandshakeRequest ==
    RPCRequest(JStr(S_jsonrpc20), JStr(<<"7">>), JStr(S_aip_handshake), ClientParams)

\* what the promise of the handler does: it resolves, it rejects, or it
\* never settles
Fates == {"resolves", "rejects", "never"}

FateOutcome(fate) ==
    IF fate = "rejects"
    THEN [kind |-> "throwError", value |-> JUndefined, message |-> S_boom]
    ELSE [kind |-> "value", value |-> JNum(<<"5">>), message |-> <<>>]

\* the session a handshake response carries
IssuedSession(response) ==
    LET session == FieldValue(response.result, <<"s", "e", "s", "s", "i", "o", "n">>)
    IN  [name |-> FieldValue(session, <<"i", "d">>).v,
         expires |-> FieldValue(session, <<"e", "x", "p", "i", "r", "e", "s">>).v]

HandshakesInProgress ==
    Cardinality({slot \in Slots : /\ inflight[slot].pc # "free"
                                  /\ inflight[slot].request = HandshakeRequest})

AsyncInit ==
    /\ tools = registerTool(<<>>, [name |-> N_echo, description |-> S_desc,
                                   schema |-> LifeSchema], "h1")
    /\ registered = <<N_echo>>
    /\ latest = NoneRecorded
    /\ contexts = <<>>
    /\ sessions = <<>>
    /\ now = 0
    /\ last = Idle
    /\ codec = CodecIdle
    /\ PeersIdle

\* handleRequest is called with a handshake: handleHandshake runs to its end,
\* the session is stored, and the request waits at `await` for its turn
AcceptHandshake(slot) ==
    /\ inflight[slot].pc = "free"
    /\ Len(issued) + HandshakesInProgress < MaxStored
    /\ \E suffix \in RandomSuffixes :
        LET result == handleRequest(tools, contexts, sessions, now, HandshakeRequest,
                                    DefaultOutcome, suffix)
        IN  /\ sessions' = result.sessions
            /\ inflight' = [inflight EXCEPT ![slot] =
                                [pc |-> "suspended", request |-> HandshakeRequest,
                                 hasTimeout |-> FALSE, fate |-> "resolves",
                                 response |-> result.response]]
    /\ UNCHANGED <<tools, registered, latest, contexts, now, last, codec, issued, alloc, client>>

\* handleRequest is called with a tool invocation: the handler is called and
\* the request waits at `await tool.handler(...)`
AcceptInvoke(slot) ==
    /\ inflight[slot].pc = "free"
    /\ \E hasTimeout \in BOOLEAN, fate \in Fates :
        inflight' = [inflight EXCEPT ![slot] =
                        [pc |-> "suspended", request |-> InvokeRequest,
                         hasTimeout |-> hasTimeout, fate |-> fate,
                         response |-> NoResponse]]
    /\ UNCHANGED <<serverVars, codec, issued, alloc, client>>

\* the awaited promise settles and handleRequest runs to its return
Settle(slot) ==
    /\ inflight[slot].pc = "suspended"
    /\ inflight[slot].fate # "never"
    /\ IF inflight[slot].request = HandshakeRequest
       THEN /\ inflight' = [inflight EXCEPT ![slot].pc = "done"]
            /\ issued' = Append(issued, IssuedSession(inflight[slot].response))
       ELSE /\ inflight' = [inflight EXCEPT
                               ![slot].pc = "done",
                               ![slot].response =
                                   handleRequest(tools, contexts, sessions, now,
                                                 inflight[slot].request,
                                                 FateOutcome(inflight[slot].fate),
                                                 <<>>).response]
            /\ issued' = issued
    /\ UNCHANGED <<serverVars, codec, alloc, client>>

\* the transport sends the response
Deliver(slot) ==
    /\ inflight[slot].pc = "done"
    /\ inflight' = [inflight EXCEPT ![slot] = FreeSlot]
    /\ UNCHANGED <<serverVars, codec, issued, alloc, client>>

AsyncTick ==
    /\ \E later \in TimePoints :
        /\ later > now
        /\ now' = later
    /\ UNCHANGED <<tools, registered, latest, contexts, sessions, last, codec, peerVars>>

AsyncCleanup ==
    /\ sessions' = cleanupSessions(sessions, now)
    /\ UNCHANGED <<tools, registered, latest, contexts, now, last, codec, peerVars>>

AsyncNext ==
    \/ \E slot \in Slots : AcceptHandshake(slot)
    \/ \E slot \in Slots : AcceptInvoke(slot)
    \/ \E slot \in Slots : Settle(slot)
    \/ \E slot \in Slots : Deliver(slot)
    \/ AsyncTick
    \/ AsyncCleanup

\* the event loop runs every continuation whose promise has settled, and the
\* transport sends every response it is given
AsyncSpec ==
    /\ AsyncInit
    /\ [][AsyncNext]_vars
    /\ \A slot \in Slots : WF_vars(Settle(slot)) /\ WF_vars(Deliver(slot))

-----------------------------------------------------------------------------
(* Port allocation: allocatePort, one step for each await *)

\* most attempts allocatePort is called with
MaxAttempts == 3

\* the highest port number
MaxPort == 65535

S_service == <<"s", "v", "c">>

LowerChar(c) ==
    CASE c = "S" -> "s" [] c = "V" -> "v" [] c = "C" -> "c" [] c = "N" -> "n" [] OTHER -> c

ToLowerCase(s) == Map(LowerChar, s)

\* what getPortInfo can report of a port: free; in use by a process lsof does
\* not show; in use by a process ps does not show; in use by a known process
\* (an absent processName or command is the empty string)
PortInfos ==
    {[inUse |-> FALSE, pid |-> 0, processName |-> <<>>, command |-> <<>>],
     [inUse |-> TRUE, pid |-> 0, processName |-> <<>>, command |-> <<>>],
     [inUse |-> TRUE, pid |-> 7, processName |-> <<>>, command |-> <<>>]}
    \cup {[inUse |-> TRUE, pid |-> 7, processName |-> name, command |-> command] :
            name \in {<<"n">>, <<"S", "v", "c">>},
            command \in {<<>>, <<"n", " ", "s", "V", "C">>, <<"n">>}}

isSameService(portInfo, serviceName) ==
    IF portInfo.command = <<>> /\ portInfo.processName = <<>>
    THEN FALSE
    ELSE LET searchString == ToLowerCase(IF portInfo.command # <<>> THEN portInfo.command
                                         ELSE portInfo.processName)
         IN  Contains(searchString, ToLowerCase(serviceName))

M_ExceededMaxPort ==
    <<"N","o"," ","a","v","a","i","l","a","b","l","e"," ","p","o","r","t","s"," ",
      "f","o","u","n","d"," ","(","e","x","c","e","e","d","e","d"," ","m","a","x"," ",
      "p","o","r","t"," ","6","5","5","3","5",")">>

M_FailedToAllocate(maxAttempts) ==
    <<"F","a","i","l","e","d"," ","t","o"," ","a","l","l","o","c","a","t","e"," ",
      "p","o","r","t"," ","a","f","t","e","r"," ">> \o CodeText(maxAttempts)
    \o <<" ","a","t","t","e","m","p","t","s">>

\* the end of the loop body that skips the port's upper limit
TryNextPort_Unchecked(a) ==
    [a EXCEPT !.pc = "loop", !.currentPort = a.currentPort + 1]

\* the end of the loop body: try the next port
TryNextPort(a) ==
    IF a.currentPort + 1 > MaxPort
    THEN [a EXCEPT !.pc = "failed", !.currentPort = a.currentPort + 1,
                   !.message = M_ExceededMaxPort]
    ELSE [a EXCEPT !.pc = "loop", !.currentPort = a.currentPort + 1]

\* a probe of a port, kept as history
Probe(port, inUse) == [port |-> port, inUse |-> inUse]

PreferredPorts == {MaxPort - 2, MaxPort - 1, MaxPort}

PortInit ==
    /\ tools = <<>>
    /\ contexts = <<>>
    /\ sessions = <<>>
    /\ now = 0
    /\ last = Idle
    /\ registered = <<>>
    /\ latest = NoneRecorded
    /\ codec = CodecIdle
    /\ inflight = [slot \in Slots |-> FreeSlot]
    /\ issued = <<>>
    /\ client = ClientIdle
    /\ \E preferredPort \in PreferredPorts, maxAttempts \in 0..MaxAttempts,
          killSameService \in BOOLEAN :
        alloc = [AllocIdle EXCEPT !.pc = "loop", !.preferredPort = preferredPort,
                                  !.maxAttempts = maxAttempts,
                                  !.killSameService = killSameService,
                                  !.currentPort = preferredPort]

\* the loop body up to its first decision: getPortInfo(currentPort)
AllocProbe ==
    /\ alloc.pc = "loop"
    /\ alloc.attempts < alloc.maxAttempts
    /\ \E portInfo \in PortInfos :
        LET a == [alloc EXCEPT !.attempts = alloc.attempts + 1,
                               !.probes = Append(alloc.probes,
                                                 Probe(alloc.currentPort, portInfo.inUse))]
        IN  alloc' = IF ~portInfo.inUse
                     THEN [a EXCEPT !.pc = "returned", !.port = a.currentPort,
                                    !.wasInUse = FALSE]
                     ELSE IF portInfo.pid # 0 /\ isSameService(portInfo, S_service)
                             /\ a.killSameService
                     THEN [a EXCEPT !.pc = "kill", !.pid = portInfo.pid]
                     ELSE TryNextPort(a)
    /\ UNCHANGED <<serverVars, codec, inflight, issued, client>>

\* killProcess(portInfo.pid)
AllocKill ==
    /\ alloc.pc = "kill"
    /\ \E killed \in BOOLEAN :
        alloc' = IF killed THEN [alloc EXCEPT !.pc = "verify"] ELSE TryNextPort(alloc)
    /\ UNCHANGED <<serverVars, codec, inflight, issued, client>>

\* isPortInUse(currentPort) after the kill
AllocVerify ==
    /\ alloc.pc = "verify"
    /\ \E stillInUse \in BOOLEAN :
        LET a == [alloc EXCEPT !.probes = Append(alloc.probes,
                                                 Probe(alloc.currentPort, stillInUse))]
        IN  alloc' = IF ~stillInUse
                     THEN [a EXCEPT !.pc = "returned", !.port = a.currentPort,
                                    !.wasInUse = TRUE, !.killedProcess = TRUE,
                                    !.previousPid = a.pid]
                     ELSE TryNextPort(a)
    /\ UNCHANGED <<serverVars, codec, inflight, issued, client>>

\* the loop ends: no attempt is left
AllocGiveUp ==
    /\ alloc.pc = "loop"
    /\ ~(alloc.attempts < alloc.maxAttempts)
    /\ alloc' = [alloc EXCEPT !.pc = "failed",
                              !.message = M_FailedToAllocate(alloc.maxAttempts)]
    /\ UNCHANGED <<serverVars, codec, inflight, issued, client>>

PortNext == AllocProbe \/ AllocKill \/ AllocVerify \/ AllocGiveUp

\* every probe and every kill comes back, and the function runs on
PortSpec == PortInit /\ [][PortNext]_vars /\ WF_vars(PortNext)

-----------------------------------------------------------------------------
(* The client: AIPClient, one step for each await of connect()              *)

\* most requests the client sends
MaxSent == 4

SessionIds == {<<"s", "1">>, <<"s", "2">>}

M_NotConnected ==
    <<"N","o","t"," ","c","o","n","n","e","c","t","e","d"," ","t","o"," ",
      "s","e","r","v","e","r">>

NoCall == [op |-> "none", outcome |-> "none", message |-> <<>>]

\* what a call of invokeTool or getContext does before its first await
GuardedCall(c, op) ==
    IF ~c.connected
    THEN [c EXCEPT !.call = [op |-> op, outcome |-> "refused", message |-> M_NotConnected]]
    ELSE [c EXCEPT !.call = [op |-> op, outcome |-> "sent", message |-> <<>>],
                   !.sent = c.sent + 1]

\* connect() after the handshake response has come
AfterHandshake(c, session) ==
    [c EXCEPT !.hasSession = TRUE, !.session = session, !.connected = TRUE,
              !.pc = "fetching", !.sent = c.sent + 1]

ClientInit ==
    /\ tools = <<>>
    /\ contexts = <<>>
    /\ sessions = <<>>
    /\ now = 0
    /\ last = Idle
    /\ registered = <<>>
    /\ latest = NoneRecorded
    /\ codec = CodecIdle
    /\ inflight = [slot \in Slots |-> FreeSlot]
    /\ issued = <<>>
    /\ alloc = AllocIdle
    /\ client = ClientIdle

\* connect() is called: the handshake request is sent
ClientConnect ==
    /\ client.pc = "idle"
    /\ client.sent < MaxSent
    /\ client' = [client EXCEPT !.pc = "handshaking", !.connect = "pending",
                                !.sent = client.sent + 1, !.call = NoCall]
    /\ UNCHANGED <<serverVars, codec, inflight, issued, alloc>>

\* sendRequest of the handshake returns or throws
HandshakeReply ==
    /\ client.pc = "handshaking"
    /\ \/ \E session \in SessionIds : client' = AfterHandshake(client, session)
       \/ client' = [client EXCEPT !.pc = "idle", !.connect = "rejected"]
    /\ UNCHANGED <<serverVars, codec, inflight, issued, alloc>>

\* sendRequest of fetchCapabilities returns or throws
CapabilitiesReply ==
    /\ client.pc = "fetching"
    /\ \/ client' = [client EXCEPT !.pc = "idle", !.connect = "resolved",
                                   !.capabilities = "fetched"]
       \/ client' = [client EXCEPT !.pc = "idle", !.connect = "rejected"]
    /\ UNCHANGED <<serverVars, codec, inflight, issued, alloc>>

\* invokeTool or getContext is called
ClientCall ==
    /\ client.sent < MaxSent
    /\ \E op \in {"invokeTool", "getContext"} : client' = GuardedCall(client, op)
    /\ UNCHANGED <<serverVars, codec, inflight, issued, alloc>>

\* disconnect() is called
ClientDisconnect ==
    /\ client.pc = "idle"
    /\ client' = [client EXCEPT !.hasSession = FALSE, !.session = <<>>,
                                !.capabilities = "none", !.connected = FALSE,
                                !.connect = IF client.connect = "resolved" THEN "none"
                                            ELSE client.connect,
                                !.call = NoCall]
    /\ UNCHANGED <<serverVars, codec, inflight, issued, alloc>>

ClientNext ==
    \/ ClientConnect
    \/ HandshakeReply
    \/ CapabilitiesReply
    \/ ClientCall
    \/ ClientDisconnect

ClientSpec == ClientInit /\ [][ClientNext]_vars


-----------------------------------------------------------------------------
(* Properties of the server *)

IsRegistered(name) == \E i \in 1..Len(registered) : registered[i] = name

HandlerThrew ==
    last.calls # <<>> /\ last.calls[1].outcome \in {"throwError", "throwValue"}

\* C1: handing the server any input (malformed request, unknown method, missing
\* tool, throwing handler) never rejects: the promise resolves, and when the
\* handler throws the resolved value is an error response in the request's own
\* format (a text starting with ERR| for the compact format, a response with an
\* error and no result for JSON-RPC).
C1_NeverThrows ==
    /\ last.op \in {"aicf", "rpc"} => last.status = "resolved"
    /\ (last.op = "aicf" /\ HandlerThrew) => StartsWith(last.text, S_ERR \o <<PIPE>>)
    /\ (last.op = "rpc" /\ HandlerThrew) =>
            last.response.hasError /\ ~last.response.hasResult

C1_Witness ==
    /\ last.op = "rpc"
    /\ HandlerThrew
    /\ last.status = "resolved"
    /\ last.response.hasError

\* C2: a CALL or INFO whose tool name is not in the registry is answered with
\* exactly ERR|404|Tool not found: <name>, the name written as on the wire; a
\* JSON-RPC aip.tool.invoke for such a name is answered with an error response
\* whose message contains the name; in both cases no handler is invoked.
C2_ToolNotFound ==
    /\ \A n \in RequestNames, c \in {S_CALL, S_INFO}, a \in ArgLists :
        (/\ last.op = "aicf"
         /\ last.input = WireRequest(c, n, IF c = S_CALL THEN a ELSE <<>>)
         /\ ~IsRegistered(n))
        => /\ last.text = Join(<<S_ERR, S_404, M_ToolNotFoundColon \o escapeString(n)>>, <<PIPE>>)
           /\ last.calls = <<>>
    /\ \A n \in RequestNames :
        (/\ last.op = "rpc"
         /\ validateJSONRPCRequest(last.request)
         /\ last.request.method = JStr(S_aip_tool_invoke)
         /\ last.request.params.present
         /\ last.request.params.tool = JStr(n)
         /\ ~IsRegistered(n))
        => /\ last.response.hasError
           /\ ~last.response.hasResult
           /\ Contains(last.response.message, n)
           /\ last.calls = <<>>

C2_Witness ==
    /\ last.op = "aicf"
    /\ last.input = WireRequest(S_CALL, N_unknown, <<S_hello>>)
    /\ last.text = S_ERR \o <<PIPE>> \o S_404 \o <<PIPE>> \o M_ToolNotFoundColon \o N_unknown
    /\ last.calls = <<>>

\* the value a handler is to receive for an argument field of ArgLists
ExpectedValue(field) ==
    CASE field = S_hello -> JStr(S_hello)
      [] field = S_42 -> JNum(S_42)
      [] field = S_true -> JBool(TRUE)
      [] field = S_null -> JNull
      [] field = <<"{", "}">> -> JObject(<<>>)

\* C3: for a CALL with n positional arguments to a tool whose schema declares m
\* properties, the handler receives an object with exactly min(n, m) keys: the
\* i-th declared property name mapped to the i-th argument; surplus arguments
\* are dropped and unsupplied trailing properties are absent.
C3_PositionalMapping ==
    \A n \in ToolNames, a \in ArgLists :
        (/\ last.op = "aicf"
         /\ last.input = WireRequest(S_CALL, n, a)
         /\ IsRegistered(n)
         /\ MapGet(tools, n).schema.hasProperties)
        => LET props == MapGet(tools, n).schema.properties
               count == IF Len(a) < Len(props) THEN Len(a) ELSE Len(props)
           IN  /\ Len(last.calls) = 1
               /\ last.calls[1].name = n
               /\ last.calls[1].args.t = "object"
               /\ Len(last.calls[1].args.v) = count
               /\ \A i \in 1..count :
                    last.calls[1].args.v[i] = [k |-> props[i].name, v |-> ExpectedValue(a[i])]
               /\ \A j \in (Len(a) + 1)..Len(props) :
                    \A e \in 1..Len(last.calls[1].args.v) :
                        last.calls[1].args.v[e].k # props[j].name

C3_Witness ==
    /\ last.op = "aicf"
    /\ last.input = WireRequest(S_CALL, N_echo, <<S_hello>>)
    /\ IsRegistered(N_echo)
    /\ MapGet(tools, N_echo).schema.properties = <<P_msg, P_count, P_flag>>
    /\ Len(last.calls) = 1
    /\ last.calls[1].args = JObject(<<[k |-> S_msg, v |-> JStr(S_hello)]>>)

\* C4: LIST is answered with TOOLS| followed by every registered tool name
\* exactly once, in the order of first registration, pipe-escaped and joined by
\* pipes; with an empty registry the answer is exactly TOOLS| .
C4_ListInRegistrationOrder ==
    (last.op = "aicf" /\ last.input \in {S_LIST, <<"l", "i", "s", "t">>})
    => /\ last.text = S_TOOLS \o <<PIPE>>
                      \o Join([i \in 1..Len(registered) |-> escapeString(registered[i])], <<PIPE>>)
       /\ registered = <<>> => last.text = <<"T", "O", "O", "L", "S", PIPE>>
       /\ \A i, j \in 1..Len(registered) : i # j => registered[i] # registered[j]
       /\ {registered[i] : i \in 1..Len(registered)} = {tools[i].name : i \in 1..Len(tools)}
       /\ last.calls = <<>>

C4_Witness ==
    /\ last.op = "aicf"
    /\ last.input = S_LIST
    /\ registered = <<N_echo, N_pipe>>
    /\ last.text = S_TOOLS \o <<PIPE>> \o N_echo \o <<PIPE, "a", BS, PIPE, "b">>

\* C8: when the handler of a registered tool T throws an error with message M
\* during a JSON-RPC aip.tool.invoke, the response is an error response with the
\* tool-execution-failed code, a message containing both T and M, and no result.
C8_HandlerFailure ==
    \A n \in ToolNames :
        (/\ last.op = "rpc"
         /\ last.request.method = JStr(S_aip_tool_invoke)
         /\ last.request.params.tool = JStr(n)
         /\ last.calls # <<>>
         /\ last.calls[1].outcome = "throwError")
        => /\ last.response.hasError
           /\ last.response.code = TOOL_EXECUTION_FAILED
           /\ Contains(last.response.message, n)
           /\ Contains(last.response.message, S_boom)
           /\ ~last.response.hasResult
           /\ last.response.result = JUndefined

C8_Witness ==
    /\ last.op = "rpc"
    /\ last.request.params.tool = JStr(N_echo)
    /\ last.calls # <<>>
    /\ last.calls[1].outcome = "throwError"
    /\ last.response.code = TOOL_EXECUTION_FAILED
    /\ last.response.message = M_ToolExecutionFailed \o <<":", " ">> \o N_echo
                               \o <<" ", "-", " ">> \o S_boom

\* the response to the JSON-RPC aip.tool.invoke that names the same tool, hands
\* the handler the same arguments and meets the same handler behaviour
SameCallOverRPC(name, argsObject, ho) ==
    handleRequest(tools, contexts, sessions, now,
                  RPCRequest(JStr(S_jsonrpc20), JStr(<<"7">>), JStr(S_aip_tool_invoke),
                             ToolParams(JStr(name), argsObject)),
                  ho, <<>>).response

\* C9: the same call (same tool, same arguments mapped by position) over the
\* compact format and over JSON-RPC has the same outcome: both succeed with the
\* same result data, or both fail with the same error code and a message that
\* names the tool and carries the handler's message.
C9_SameOutcomeInBothFormats ==
    \A n \in RequestNames, a \in ArgLists :
        (last.op = "aicf" /\ last.input = WireRequest(S_CALL, n, a))
        => LET called == last.calls # <<>>
               ho == IF called
                     THEN CHOOSE h \in HandlerOutcomes : h.kind = last.calls[1].outcome
                     ELSE DefaultOutcome
               rpc == SameCallOverRPC(n, IF called THEN last.calls[1].args ELSE JObject(<<>>), ho)
           IN  /\ last.reply.success <=> rpc.hasResult
               /\ last.reply.success => last.reply.data = rpc.result
               /\ ~last.reply.success =>
                    /\ last.reply.code = rpc.code
                    /\ Contains(last.reply.message, n) /\ Contains(rpc.message, n)
                    /\ ho.kind = "throwError" =>
                            Contains(last.reply.message, ho.message)
                            /\ Contains(rpc.message, ho.message)

\* C10: a JSON-RPC aip.tool.invoke naming a tool that is not registered is
\* answered with an error response that carries the not-found code, a code other
\* than the one used when a registered tool's handler fails, and whose message
\* names the tool.
C10_NotFoundCode ==
    \A n \in RequestNames :
        (/\ last.op = "rpc"
         /\ validateJSONRPCRequest(last.request)
         /\ last.request.method = JStr(S_aip_tool_invoke)
         /\ last.request.params.present
         /\ last.request.params.tool = JStr(n)
         /\ ~IsRegistered(n))
        => /\ last.response.hasError
           /\ last.response.code = NOT_FOUND
           /\ last.response.code # TOOL_EXECUTION_FAILED
           /\ Contains(last.response.message, n)

-----------------------------------------------------------------------------
(* Properties of the codec *)

\* the number of consecutive backslashes that end just before position i
BackslashRun(s, i) ==
    CHOOSE k \in 0..(i - 1) :
        /\ \A j \in 1..k : s[i - j] = BS
        /\ k = i - 1 \/ s[i - k - 1] # BS

\* the character at i is consumed by the backslash before it
Escaped(s, i) == BackslashRun(s, i) % 2 = 1

\* the character at i is a backslash that escapes the character after it
Introducer(s, i) == s[i] = BS /\ ~Escaped(s, i)

UnescapedPipes(s) == {i \in 1..Len(s) : s[i] = PIPE /\ ~Escaped(s, i)}

\* the characters of s at the positions of idx, in order
Pick(s, idx) ==
    [n \in 1..Cardinality(idx) |->
        s[CHOOSE i \in idx : Cardinality({j \in idx : j <= i}) = n]]

\* the fields between the unescaped pipes of s, the escaping backslashes removed
FieldsBetweenUnescapedPipes(s) ==
    LET cuts == UnescapedPipes(s)
        cutAt(m) == IF m = 0 THEN 0
                    ELSE IF m = Cardinality(cuts) + 1 THEN Len(s) + 1
                    ELSE CHOOSE i \in cuts : Cardinality({j \in cuts : j <= i}) = m
        field(m) == Pick(s, {i \in (cutAt(m - 1) + 1)..(cutAt(m) - 1) : ~Introducer(s, i)})
        all == [m \in 1..(Cardinality(cuts) + 1) |-> field(m)]
    IN  IF all[Len(all)] = <<>> /\ (s = <<>> \/ s[Len(s)] # PIPE)
        THEN SubSeq(all, 1, Len(all) - 1)
        ELSE all

\* a request as a client writes it: no surrounding whitespace, no raw newline or
\* tab, every backslash part of one of the four escapes, an upper-case command,
\* LIST alone, INFO with one name, CALL with a name
WellEscaped(s) ==
    \A i \in 1..Len(s) :
        /\ s[i] \notin {NL, TAB}
        /\ Introducer(s, i) => i < Len(s) /\ s[i + 1] \in {BS, PIPE, "n", "t"}

ValidRequestString(s) ==
    /\ WellEscaped(s)
    /\ Trim(s) = s
    /\ \/ s = S_LIST
       \/ /\ StartsWith(s, S_INFO \o <<PIPE>>)
          /\ Len(s) > 5
          /\ UnescapedPipes(s) = {5}
       \/ /\ StartsWith(s, S_CALL \o <<PIPE>>)
          /\ Len(s) > 5
          /\ s[6] # PIPE

\* C5: parsing any valid request string and serializing the parsed request
\* again yields the identical string.
C5_RoundTrip ==
    (codec.pc = "serialized" /\ ValidRequestString(codec.input))
    => codec.output = codec.input

\* C6: escaping is reversible: a request whose tool name and string argument
\* hold pipes, backslashes, newlines and tabs is decoded from its wire text to
\* the original name and argument.
C6_DecodeInvertsEscape ==
    (codec.pc \in {"parsed", "serialized"} /\ codec.request.hasTool)
    => /\ codec.parsed.ok
       /\ codec.parsed.command = codec.request.command
       /\ codec.parsed.tool = codec.request.tool
       /\ codec.request.command = S_CALL => codec.parsed.arguments = codec.request.arguments

\* C7: the wire text is split into fields at the unescaped pipes only: a pipe
\* preceded by an unconsumed backslash never ends a field and every other pipe
\* always ends one; CALL|tool|with\|pipe has the single argument with|pipe .
C7_SplitAtUnescapedPipes ==
    codec.pc \in {"parsed", "serialized"}
    => /\ codec.fields = FieldsBetweenUnescapedPipes(Trim(codec.input))
       /\ codec.input = E_escapedPipe =>
            /\ codec.parsed.ok
            /\ codec.parsed.tool = <<"t", "o", "o", "l">>
            /\ codec.parsed.arguments = <<JStr(S_withPipe)>>

C7_Witness ==
    /\ codec.pc = "parsed"
    /\ codec.input = E_escapedPipe
    /\ Len(codec.fields) = 3
    /\ codec.parsed.arguments = <<JStr(S_withPipe)>>

-----------------------------------------------------------------------------
(* Properties of the JSON-RPC envelope *)

\* the envelope rule: the version tag is the literal 2.0, the id is a string
\* or a number, the method is a non-empty string
WellFormedEnvelope(request) ==
    /\ request.isObject
    /\ request.jsonrpc = JStr(S_jsonrpc20)
    /\ request.id.t \in {"string", "number"}
    /\ request.method.t = "string"
    /\ request.method.v # <<>>

\* C11: a request whose version tag is not 2.0, whose id is missing or neither
\* string nor number, or whose method is not a non-empty string is answered
\* with Invalid Request (-32600) and reaches no handler; every other request is
\* dispatched.
C11_InvalidRequest ==
    last.op = "rpc"
    => IF WellFormedEnvelope(last.request)
       THEN ~(last.response.hasError /\ last.response.code = INVALID_REQUEST)
       ELSE /\ last.response.hasError
            /\ ~last.response.hasResult
            /\ last.response.code = INVALID_REQUEST
            /\ last.calls = <<>>

\* C12: every response carries the id of the request it answers, and a request
\* that is no valid envelope and has no usable id is answered with the id null
\* or absent.
C12_IdEcho ==
    last.op = "rpc"
    => /\ (last.request.isObject /\ last.request.id.t \in {"string", "number"})
            => last.response.id = last.request.id
       /\ (~last.request.isObject \/ last.request.id.t \in {"undefined", "null"})
            => last.response.id \in {JNull, JUndefined}

KnownMethods == {S_aip_handshake, S_aip_capabilities_list, S_aip_tool_invoke, S_aip_context_get}

\* C13: a valid request whose method is none of aip.handshake,
\* aip.capabilities.list, aip.tool.invoke, aip.context.get is answered with
\* Method not found (-32601) naming the method; no tool or context handler is
\* invoked and no session is created (the step from an idle server to an
\* answered JSON-RPC request is the HandleRequest step).
C13_MethodNotFound ==
    [][(/\ last.op = "none"
        /\ last'.op = "rpc"
        /\ validateJSONRPCRequest(last'.request)
        /\ last'.request.method.v \notin KnownMethods)
       => /\ last'.status = "resolved"
          /\ last'.response.hasError
          /\ ~last'.response.hasResult
          /\ last'.response.code = METHOD_NOT_FOUND
          /\ last'.response.id = last'.request.id
          /\ Contains(last'.response.message, last'.request.method.v)
          /\ EndsWith(last'.response.message, last'.request.method.v)
          /\ last'.calls = <<>>
          /\ sessions' = sessions]_vars

C13_Witness ==
    /\ last.op = "rpc"
    /\ last.request.method = JStr(S_aip_other)
    /\ last.response.code = METHOD_NOT_FOUND
    /\ last.response.message = M_MethodNotFoundColon \o S_aip_other
    /\ last.calls = <<>>

\* C14: for aip.tool.invoke on a registered tool the handler is called exactly
\* once with the request's params.arguments unchanged, and the value the
\* handler returns is the response's result verbatim (a handler returning 5
\* for {a: 2, b: 3} with id "7" gives id "7" and result 5).
C14_InvokePassThrough ==
    \A n \in ToolNames :
        (/\ last.op = "rpc"
         /\ validateJSONRPCRequest(last.request)
         /\ last.request.method = JStr(S_aip_tool_invoke)
         /\ last.request.params.present
         /\ last.request.params.tool = JStr(n)
         /\ IsRegistered(n))
        => /\ Len(last.calls) = 1
           /\ last.calls[1].kind = "tool"
           /\ last.calls[1].name = n
           /\ last.calls[1].args = last.request.params.arguments
           /\ last.calls[1].outcome \in {"echo", "value"} =>
                /\ last.response.hasResult
                /\ ~last.response.hasError
                /\ last.response.id = last.request.id
                /\ last.response.result = IF last.calls[1].outcome = "value"
                                          THEN JNum(<<"5">>)
                                          ELSE last.request.params.arguments

C14_Witness ==
    /\ last.op = "rpc"
    /\ last.request.id = JStr(<<"7">>)
    /\ last.request.params.tool = JStr(N_echo)
    /\ last.request.params.arguments
         = JObject(<<[k |-> <<"a">>, v |-> JNum(<<"2">>)], [k |-> <<"b">>, v |-> JNum(<<"3">>)]>>)
    /\ Len(last.calls) = 1
    /\ last.calls[1].args = last.request.params.arguments
    /\ last.response.id = JStr(<<"7">>)
    /\ last.response.hasResult
    /\ last.response.result = JNum(<<"5">>)

-----------------------------------------------------------------------------
(* Properties of argument typing and of the parser's errors *)

AllDigits(s) == s # <<>> /\ \A i \in 1..Len(s) : s[i] \in {"0", "1", "2", "3", "4", "5", "6", "7", "8", "9"}

\* optional minus, digits, optional point and digits
MatchesNumberPattern(f) ==
    \E sign \in {0, 1} :
        /\ sign = 1 => (f # <<>> /\ f[1] = "-")
        /\ \E k \in (sign + 1)..Len(f) :
            /\ AllDigits(SubSeq(f, sign + 1, k))
            /\ \/ k = Len(f)
               \/ /\ k + 2 <= Len(f)
                  /\ f[k + 1] = "."
                  /\ AllDigits(SubSeq(f, k + 2, Len(f)))

DigitValue(c) == (CHOOSE i \in 1..10 : <<"0", "1", "2", "3", "4", "5", "6", "7", "8", "9">>[i] = c) - 1

RECURSIVE DigitsValue(_)
DigitsValue(s) ==
    IF s = <<>> THEN 0 ELSE DigitsValue(SubSeq(s, 1, Len(s) - 1)) * 10 + DigitValue(s[Len(s)])

\* the value of a decimal text, in thousandths (texts with up to three decimals)
Thousandths(s) ==
    LET neg == s[1] = "-"
        body == IF neg THEN Tail(s) ELSE s
        dot == IF \E i \in 1..Len(body) : body[i] = "."
               THEN CHOOSE i \in 1..Len(body) : body[i] = "."
               ELSE Len(body) + 1
        frac == SubSeq(body, dot + 1, Len(body))
        scale == CASE Len(frac) = 0 -> 1000 [] Len(frac) = 1 -> 100
                   [] Len(frac) = 2 -> 10 [] Len(frac) = 3 -> 1
        magnitude == DigitsValue(SubSeq(body, 1, dot - 1)) * 1000 + DigitsValue(frac) * scale
    IN  IF neg THEN 0 - magnitude ELSE magnitude

BracketForm(f) ==
    /\ f # <<>>
    /\ \/ f[1] = "{" /\ f[Len(f)] = "}"
       \/ f[1] = "[" /\ f[Len(f)] = "]"

\* the bracketed fields of TypedFields that are JSON texts, with their values
JSONFields ==
    {<<<<"{", "}">>, JObject(<<>>)>>,
     <<<<"[", "]">>, JArray(<<>>)>>,
     <<<<"[", "1", "]">>, JArray(<<JNum(<<"1">>)>>)>>,
     <<<<"[", "1", ".", "0", "]">>, JArray(<<JNum(<<"1">>)>>)>>,
     <<<<"[", "[", "]", "]">>, JArray(<<JArray(<<>>)>>)>>}

RefusedInputs ==
    {<<<<>>, M_InputMustBeString>>,
     <<S_CALL, M_CallRequiresTool>>,
     <<S_INFO, M_InfoRequiresTool>>,
     <<<<"P", "I", "N", "G", PIPE, "a">>, M_InvalidCommand \o <<"P", "I", "N", "G">>>>}

\* C16: parseAICFRequest throws for empty input, for CALL or INFO with no
\* tool-name field and for a command other than CALL, LIST or INFO (the error
\* names the command); for each such input handleAICFRequest answers
\* ERR|400|<message>, invokes no handler and changes no server state (the step
\* from an idle server to an answered compact request is HandleAICFRequest).
C16_ParseErrors ==
    [][\A r \in RefusedInputs :
        (last.op = "none" /\ last'.op = "aicf" /\ last'.input = r[1])
        => /\ ~parseAICFRequest(r[1]).ok
           /\ parseAICFRequest(r[1]).message = r[2]
           /\ last'.status = "resolved"
           /\ last'.text = S_ERR \o <<PIPE>> \o S_400 \o <<PIPE>> \o r[2]
           /\ last'.calls = <<>>
           /\ tools' = tools
           /\ contexts' = contexts
           /\ sessions' = sessions]_vars

C16_Witness ==
    /\ last.op = "aicf"
    /\ last.input = <<"P", "I", "N", "G", PIPE, "a">>
    /\ last.text = S_ERR \o <<PIPE>> \o S_400 \o <<PIPE>> \o M_InvalidCommand \o <<"P", "I", "N", "G">>
    /\ last.calls = <<>>

\* C17: when the splitter's input ends with an unescaped pipe the split yields
\* one additional empty last field (CALL|tool| has one argument, the empty
\* string); when the input's last pipe is escaped no extra field is produced.
C17_TrailingPipe ==
    codec.pc \in {"parsed", "serialized"}
    => LET s == Trim(codec.input)
           n == Len(codec.fields)
       IN  /\ (s # <<>> /\ s[Len(s)] = PIPE /\ ~Escaped(s, Len(s)))
                => /\ n = Cardinality(UnescapedPipes(s)) + 1
                   /\ codec.fields[n] = <<>>
           /\ (s # <<>> /\ s[Len(s)] = PIPE /\ Escaped(s, Len(s)))
                => /\ n = Cardinality(UnescapedPipes(s)) + 1
                   /\ codec.fields[n] # <<>>
                   /\ codec.fields[n][Len(codec.fields[n])] = PIPE
           /\ codec.input = E_trailingPipe
                => /\ codec.parsed.ok
                   /\ codec.parsed.tool = <<"t", "o", "o", "l">>
                   /\ codec.parsed.arguments = <<JStr(<<>>)>>

C17_Witness ==
    /\ codec.pc = "parsed"
    /\ codec.input = E_trailingPipe
    /\ codec.fields = <<S_CALL, <<"t", "o", "o", "l">>, <<>>>>
    /\ codec.parsed.arguments = <<JStr(<<>>)>>

-----------------------------------------------------------------------------
(* Properties of the response encoding *)

\* a text with every backslash, pipe, newline and tab replaced by its escape
EscapedText(x) ==
    Flatten([i \in 1..Len(x) |->
                CASE x[i] = BS -> <<BS, BS>>
                  [] x[i] = PIPE -> <<BS, PIPE>>
                  [] x[i] = NL -> <<BS, "n">>
                  [] x[i] = TAB -> <<BS, "t">>
                  [] OTHER -> <<x[i]>>])

\* the JSON texts of the object and array payloads
JSONTexts ==
    {<<JObject(<<>>), <<"{", "}">>>>,
     <<JArray(<<>>), <<"[", "]">>>>,
     <<JObject(<<[k |-> S_key, v |-> JStr(<<"x", PIPE, "y">>)], [k |-> <<"n">>, v |-> JNum(<<"1">>)]>>),
       <<"{", QUOTE, "k", "e", "y", QUOTE, ":", QUOTE, "x", PIPE, "y", QUOTE, ",",
         QUOTE, "n", QUOTE, ":", "1", "}">>>>,
     <<JArray(<<JStr(<<"a">>), JNull, JBool(TRUE)>>),
       <<"[", QUOTE, "a", QUOTE, ",", "n", "u", "l", "l", ",", "t", "r", "u", "e", "]">>>>}

\* the payload text the encoding rule gives
PayloadText(data) ==
    CASE data.t \in {"null", "undefined"} -> <<>>
      [] data.t = "string" -> EscapedText(data.v)
      [] data.t \in {"number", "boolean"} -> data.v
      [] data.t \in {"object", "array"} ->
            EscapedText((CHOOSE j \in JSONTexts : j[1] = data)[2])

\* the decimal texts of the error codes
CodeTexts ==
    {<<0, <<"0">>>>, <<400, <<"4", "0", "0">>>>, <<404, <<"4", "0", "4">>>>,
     <<500, <<"5", "0", "0">>>>, <<1001, <<"1", "0", "0", "1">>>>}

\* C18: serializeAICFResponse maps a success response to OK| followed by the
\* payload text (empty for null and undefined, the escaped string, the literal
\* text of a number or boolean, the escaped JSON text of an object or array)
\* and a failure response with code c and message m to ERR|c| followed by m
\* escaped, with exactly the code c that was given.
C18_ResponseEncoding ==
    codec.pc = "sent"
    => IF codec.response.success
       THEN codec.output = S_OK \o <<PIPE>> \o PayloadText(codec.response.data)
       ELSE codec.output = S_ERR \o <<PIPE>>
                           \o (CHOOSE c \in CodeTexts : c[1] = codec.response.code)[2]
                           \o <<PIPE>> \o EscapedText(codec.response.message)

-----------------------------------------------------------------------------
(* Properties of INFO and of context retrieval *)

\* C19: for a registered tool INFO|<name> is answered with
\* TOOL|<name>|<description> followed by one |argName:argType field for each
\* property the tool's schema declares, in declaration order, none left out or
\* repeated (a property declared without a type has the type any); a tool with
\* no declared properties gives exactly TOOL|<name>|<description>.
C19_ToolInfo ==
    \A n \in ToolNames :
        (/\ last.op = "aicf"
         /\ last.input = S_INFO \o <<PIPE>> \o EscapedText(n)
         /\ IsRegistered(n))
        => LET schema == MapGet(tools, n).schema
               props == IF schema.hasProperties THEN schema.properties ELSE <<>>
               head == S_TOOL \o <<PIPE>> \o EscapedText(n) \o <<PIPE>> \o S_desc
               field(i) == <<PIPE>> \o props[i].name \o <<":">>
                           \o (IF props[i].hasType THEN props[i].type ELSE S_any)
           IN  /\ last.text = head \o Flatten([i \in 1..Len(props) |-> field(i)])
               /\ props = <<>> => last.text = head
               /\ last.calls = <<>>

C19_Witness ==
    /\ last.op = "aicf"
    /\ last.input = S_INFO \o <<PIPE>> \o N_echo
    /\ IsRegistered(N_echo)
    /\ MapGet(tools, N_echo).schema.properties = <<P_msg, P_count, P_flag>>
    /\ last.text = S_TOOL \o <<PIPE>> \o N_echo \o <<PIPE>> \o S_desc
                   \o <<PIPE, "m", "s", "g", ":", "s", "t", "r", "i", "n", "g">>
                   \o <<PIPE, "c", "o", "u", "n", "t", ":", "n", "u", "m", "b", "e", "r">>
                   \o <<PIPE, "f", "l", "a", "g", ":", "a", "n", "y">>

\* an aip.context.get request that names a context
IsContextGet ==
    /\ last.op = "rpc"
    /\ validateJSONRPCRequest(last.request)
    /\ last.request.method.v = S_aip_context_get
    /\ last.request.params.present
    /\ last.request.params.context.t = "string"

ContextFailure(name) ==
    /\ last.status = "resolved"
    /\ last.response.hasError
    /\ ~last.response.hasResult
    /\ last.response.id = last.request.id
    /\ last.response.code = CONTEXT_NOT_AVAILABLE
    /\ last.response.code = 1002
    /\ last.response.message = M_ContextNotAvailableColon \o name

\* C20: aip.context.get for a name that is not in the context registry fails
\* with code 1002 and a message naming the context, and no supplier is called;
\* for a registered context the supplier is called once with no arguments and
\* its value is the result; if the supplier throws, the response is a
\* context-not-available failure naming the context, with the thrown cause
\* attached as error data.
C20_ContextGet ==
    IsContextGet =>
        LET name == last.request.params.context.v
        IN  IF ~MapHas(contexts, name)
            THEN /\ ContextFailure(name)
                 /\ last.response.data = JUndefined
                 /\ last.calls = <<>>
            ELSE /\ Len(last.calls) = 1
                 /\ last.calls[1].kind = "context"
                 /\ last.calls[1].name = name
                 /\ last.calls[1].handler = MapGet(contexts, name).handler
                 /\ last.calls[1].args = JUndefined
                 /\ CASE last.calls[1].outcome = "echo" ->
                            /\ last.status = "resolved"
                            /\ last.response.hasResult /\ ~last.response.hasError
                            /\ last.response.id = last.request.id
                            /\ last.response.result = JUndefined
                      [] last.calls[1].outcome = "value" ->
                            /\ last.status = "resolved"
                            /\ last.response.hasResult /\ ~last.response.hasError
                            /\ last.response.id = last.request.id
                            /\ last.response.result = JNum(<<"5">>)
                      [] last.calls[1].outcome = "throwError" ->
                            /\ ContextFailure(name)
                            /\ last.response.data = JObject(<<Pair(S_originalError, JStr(S_boom))>>)
                      [] last.calls[1].outcome = "throwValue" ->
                            /\ ContextFailure(name)
                            /\ last.response.data = JObject(<<Pair(S_originalError, JStr(S_oops))>>)

C20_Witness ==
    /\ IsContextGet
    /\ last.request.params.context.v = N_ctx
    /\ MapHas(contexts, N_ctx)
    /\ Len(last.calls) = 1
    /\ last.calls[1].outcome = "throwValue"
    /\ last.response.code = 1002
    /\ last.response.data = JObject(<<Pair(S_originalError, JStr(S_oops))>>)

-----------------------------------------------------------------------------
(* Properties of the session store and the registries over the lifetime *)

\* the step that handles a well-formed aip.handshake request
HandshakeStep ==
    /\ last.op = "none"
    /\ last'.op = "rpc"
    /\ validateJSONRPCRequest(last'.request)
    /\ last'.request.method.v = S_aip_handshake

\* C21: every aip.handshake request, with params or without, succeeds, adds
\* exactly one new session to the session store and returns the server
\* descriptor together with that stored session (same id, same expiry); so
\* after k handshakes and no sweep the store holds k sessions.
C21_Handshake ==
    [][HandshakeStep =>
        /\ last'.status = "resolved"
        /\ last'.response.hasResult
        /\ ~last'.response.hasError
        /\ last'.response.id = last'.request.id
        /\ FieldValue(last'.response.result, <<"s", "e", "r", "v", "e", "r">>)
             = getServerInfo(tools, contexts)
        /\ Len(sessions') = Len(sessions) + 1
        /\ SubSeq(sessions', 1, Len(sessions)) = sessions
        /\ LET stored == sessions'[Len(sessions')]
           IN  /\ ~MapHas(sessions, stored.name)
               /\ stored.expires = ISOString(now + SessionTTL)
               /\ FieldValue(last'.response.result, <<"s", "e", "s", "s", "i", "o", "n">>)
                    = SessionValue(stored)]_vars

\* the step in which the host sweeps the session store
SweepStep == last.op = "none" /\ last'.op = "sweep"

\* the instant a session was created at, which its id records:
\* session-<instant>-<suffix>
CreatedAt(session) ==
    LET rest == SubSeq(session.name, Len(S_sessionDash) + 1, Len(session.name))
        dash == CHOOSE i \in 1..Len(rest) : rest[i] = "-" /\ \A j \in 1..(i - 1) : rest[j] # "-"
    IN  DigitsValue(SubSeq(rest, 1, dash - 1))

\* the instant a session expires at
ExpiresAt(session) == DigitsValue(SubSeq(session.expires, 1, Len(session.expires) - 1))

\* C22: cleanupSessions called at time t removes exactly the sessions whose
\* expiry is before t and leaves every other session as it was; a session's
\* expiry is 24 hours after the handshake that created it, so no sweep removes
\* a session earlier than 24 hours after its creation, and every session still
\* there after a sweep at t expires at t or later.
C22_Sweep ==
    [][SweepStep =>
        /\ \A i \in 1..Len(sessions) : ExpiresAt(sessions[i]) = CreatedAt(sessions[i]) + SessionTTL
        /\ sessions' = SelectSeq(sessions, LAMBDA session : ~(ExpiresAt(session) < now))
        /\ \A i \in 1..Len(sessions) :
            ~MapHas(sessions', sessions[i].name) => now > CreatedAt(sessions[i]) + SessionTTL
        /\ \A i \in 1..Len(sessions') : ExpiresAt(sessions'[i]) >= now
        /\ UNCHANGED <<tools, contexts, now>>]_vars

\* a sweep a day and a millisecond after start-up has removed the session
\* created at start-up and kept the one created a millisecond after it
C22_Witness ==
    /\ last.op = "sweep"
    /\ now = SessionTTL + 1
    /\ Len(last.swept) = 1
    /\ Len(sessions) = 1
    /\ CreatedAt(sessions[1]) = 1
    /\ ExpiresAt(sessions[1]) = now

\* the step that handles a request of either protocol
RequestStep == last.op = "none" /\ last'.op \in {"aicf", "rpc"}

\* the step in which the response leaves and the request is over
RespondStep == last.op # "none" /\ last'.op = "none"

Sessions(sessionMap) == {sessionMap[i] : i \in 1..Len(sessionMap)}

\* C23: handling a request leaves the server's persistent state as it was,
\* except for handshake: LIST, INFO, CALL, aip.capabilities.list,
\* aip.tool.invoke, aip.context.get and every rejected or malformed request
\* leave the session store and both registries unchanged; only aip.handshake
\* adds to the session store, only cleanupSessions removes from it, and only
\* registerTool / registerContext change the registries.
C23_Frame ==
    [][/\ RequestStep =>
            /\ tools' = tools
            /\ contexts' = contexts
            /\ IF HandshakeStep
               THEN Sessions(sessions) \subseteq Sessions(sessions')
               ELSE sessions' = sessions
       /\ SweepStep =>
            /\ tools' = tools
            /\ contexts' = contexts
            /\ Sessions(sessions') \subseteq Sessions(sessions)
       /\ RespondStep => tools' = tools /\ contexts' = contexts /\ sessions' = sessions
       /\ (tools' # tools \/ contexts' # contexts) =>
            /\ latest' # latest
            /\ last' = last
            /\ sessions' = sessions
       /\ sessions' # sessions => HandshakeStep \/ SweepStep]_vars

\* a CALL has run a handler on a server with a tool, a context and two sessions
C23_Witness ==
    /\ last.op = "aicf"
    /\ last.input = WireRequest(S_CALL, N_echo, <<S_hello>>)
    /\ Len(last.calls) = 1
    /\ Len(tools) = 1
    /\ Len(contexts) = 1
    /\ Len(sessions) = 2

\* the entries a registry holds under a name
EntriesOf(map, name) == {i \in 1..Len(map) : map[i].name = name}

\* the handler calls of the request that was just handled all went to `handler`
CallsOnly(handler) == \A i \in 1..Len(last.calls) : last.calls[i].handler = handler

\* C24: registering a tool (or a context) under a name that is already
\* registered replaces the earlier entry without error: the registry holds one
\* entry for the name, with the descriptor and the handler of the most recent
\* registration; CALL, INFO and aip.tool.invoke (aip.context.get) for the name
\* use them, and a handler given by an earlier registration is not called again.
C24_LastRegistrationWins ==
    /\ \A key \in DOMAIN latest :
        LET map == IF key[1] = "tool" THEN tools ELSE contexts
            given == latest[key].given
        IN  /\ Cardinality(EntriesOf(map, key[2])) = 1
            /\ MapGet(map, key[2]).handler = given.handler
            /\ MapGet(map, key[2]).description = given.description
            /\ key[1] = "tool" => MapGet(map, key[2]).schema = given.schema
    /\ \A i \in 1..Len(last.calls) :
        LET key == <<last.calls[i].kind, last.calls[i].name>>
        IN  /\ key \in DOMAIN latest
            /\ last.calls[i].handler = latest[key].given.handler
            /\ last.calls[i].handler \notin latest[key].earlier
    /\ (<<"tool", N_echo>> \in DOMAIN latest /\ last.op = "aicf") =>
        LET given == latest[<<"tool", N_echo>>].given
        IN  /\ last.input = WireRequest(S_CALL, N_echo, <<S_hello>>) =>
                Len(last.calls) = 1 /\ CallsOnly(given.handler)
            /\ last.input = WireRequest(S_INFO, N_echo, <<>>) =>
                last.text = S_TOOL \o <<PIPE>> \o N_echo \o <<PIPE>> \o given.description
                            \o <<PIPE, "m", "s", "g", ":", "s", "t", "r", "i", "n", "g">>
    /\ (<<"tool", N_echo>> \in DOMAIN latest /\ last.op = "rpc"
        /\ last.request.method = JStr(S_aip_tool_invoke)
        /\ last.request.params.tool = JStr(N_echo)) =>
            Len(last.calls) = 1 /\ CallsOnly(latest[<<"tool", N_echo>>].given.handler)
    /\ (<<"context", N_ctx>> \in DOMAIN latest /\ last.op = "rpc"
        /\ last.request.method = JStr(S_aip_context_get)
        /\ last.request.params.context = JStr(N_ctx)) =>
            Len(last.calls) = 1 /\ CallsOnly(latest[<<"context", N_ctx>>].given.handler)

\* the tool was registered with handler h1 and then again with h2 and another
\* description; a CALL has gone to h2
C24_Witness ==
    /\ <<"tool", N_echo>> \in DOMAIN latest
    /\ latest[<<"tool", N_echo>>].earlier = {"h1"}
    /\ latest[<<"tool", N_echo>>].given.handler = "h2"
    /\ latest[<<"tool", N_echo>>].given.description = S_desc2
    /\ last.op = "aicf"
    /\ last.input = WireRequest(S_CALL, N_echo, <<S_hello>>)
    /\ Len(last.calls) = 1
    /\ last.calls[1].handler = "h2"
    /\ Len(tools) = 1

-----------------------------------------------------------------------------
(* Properties of the response envelopes *)

\* a member of a response is present when it is not undefined, as
\* validateJSONRPCResponse reads it (and as JSON.stringify writes it)
ResultPresent(response) == response.hasResult /\ response.result # JUndefined

ErrorPresent(response) == response.hasError

\* C26: every response handleRequest produces has exactly one of result and
\* error present, never both and never neither, and every AICF response the
\* dispatcher builds is a success with no error or a failure with an error and
\* no data, whatever the handler did, a handler returning null or undefined
\* included.
C26_ExactlyOne ==
    /\ (last.op = "rpc" /\ last.status = "resolved") =>
        /\ ResultPresent(last.response) \/ ErrorPresent(last.response)
        /\ ~(ResultPresent(last.response) /\ ErrorPresent(last.response))
    /\ (last.op = "aicf" /\ ~last.direct) =>
        \/ last.reply.success /\ ~last.reply.hasError
        \/ ~last.reply.success /\ last.reply.hasError /\ last.reply.data = JUndefined

-----------------------------------------------------------------------------
(* Properties of the transport's format check *)

\* HTTPTransport.handleAICFRequest hands the body to the server, instead of
\* answering ERR|400|Invalid AICF request format
ReachesServer(input) == ~(input = <<>> \/ ~isAICFFormat(input))

\* C29: the HTTP transport's format check never refuses a request the server
\* could decode: every input for which parseAICFRequest succeeds, in any
\* accepted spelling of CALL, LIST or INFO, also satisfies isAICFFormat and so
\* reaches AIPServer.handleAICFRequest.
C29_PrecheckAdmitsDecodable ==
    (codec.pc = "parsed" /\ codec.parsed.ok) => ReachesServer(codec.input)

-----------------------------------------------------------------------------
(* Properties of the asynchronous server *)

\* a tool invocation that carries a timeout waits for its handler
WaitsWithTimeout(slot) ==
    /\ inflight[slot].pc = "suspended"
    /\ inflight[slot].request = InvokeRequest
    /\ inflight[slot].hasTimeout

\* the invocation has returned a response to its caller
Answered(slot) == inflight[slot].pc = "done"

\* C25: a tool invocation given a per-invocation timeout, whose handler has
\* not completed within that bound (a handler that never resolves in
\* particular), eventually returns a tool-execution-failed failure to the
\* caller instead of waiting for ever, and returns no partial result.
C25_TimeoutEnds ==
    \A slot \in Slots : WaitsWithTimeout(slot) ~> Answered(slot)

\* C27: whatever the interleaving of handshakes, of tool invocations waiting
\* on their handlers and of cleanupSessions calls, every completed handshake
\* has its own session in the store, under an id no other handshake was
\* given, until a sweep removes it after its expiry; no session is lost or
\* overwritten by another handshake.
C27_SessionsKept ==
    \A k \in 1..Len(issued) :
        /\ \/ MapHas(sessions, issued[k].name) /\ MapGet(sessions, issued[k].name) = issued[k]
           \/ now > ExpiresAt(issued[k])
        /\ \A j \in 1..Len(issued) : j # k => issued[j].name # issued[k].name

-----------------------------------------------------------------------------
(* Properties of port allocation *)

ProbedPorts == {alloc.probes[i].port : i \in 1..Len(alloc.probes)}

LastProbe == alloc.probes[Len(alloc.probes)]

\* what holds of allocatePort at every step
AllocSafe ==
    /\ alloc.probes # <<>> => alloc.probes[1].port = alloc.preferredPort
    /\ \A i \in 2..Len(alloc.probes) :
        \/ alloc.probes[i].port = alloc.probes[i - 1].port + 1
        \/ /\ alloc.probes[i].port = alloc.probes[i - 1].port
           /\ alloc.probes[i - 1].inUse
           /\ alloc.killSameService
    /\ \A i \in 1..Len(alloc.probes) : alloc.probes[i].port <= MaxPort
    /\ alloc.attempts = Cardinality(ProbedPorts)
    /\ alloc.attempts <= alloc.maxAttempts
    /\ alloc.pc = "returned" =>
        /\ alloc.probes # <<>>
        /\ LastProbe.port = alloc.port
        /\ ~LastProbe.inUse
        /\ alloc.port = alloc.preferredPort + alloc.attempts - 1
        /\ alloc.wasInUse = alloc.killedProcess
        /\ alloc.killedProcess =>
            /\ alloc.killSameService
            /\ Len(alloc.probes) >= 2
            /\ alloc.probes[Len(alloc.probes) - 1] = Probe(alloc.port, TRUE)
    /\ alloc.pc = "failed" =>
        \/ /\ alloc.message = M_FailedToAllocate(alloc.maxAttempts)
           /\ alloc.attempts = alloc.maxAttempts
        \/ /\ alloc.message = M_ExceededMaxPort
           /\ alloc.currentPort = MaxPort + 1
           /\ LastProbe = Probe(MaxPort, TRUE)

AllocEnded == alloc.pc \in {"returned", "failed"}

\* C28: allocatePort always terminates: it probes ports in increasing order
\* from preferredPort, one port for each attempt, and either returns a port
\* that its most recent probe saw free (the preferred port when that is free,
\* or the same port after killing a same-service holder when killSameService
\* is set and the port is free afterwards), with attempts equal to the number
\* of ports probed, or fails with an error after maxAttempts attempts or as
\* soon as the next port would be above 65535; it never returns a port it last
\* saw in use.
C28_AllocatePort == []AllocSafe /\ <>AllocEnded

\* the preferred port was held by another program, the next one by an older
\* process of the same service, which was killed, and the port was then free
C28_Witness ==
    /\ alloc.pc = "returned"
    /\ alloc.killedProcess
    /\ alloc.attempts = 2
    /\ alloc.port = alloc.preferredPort + 1
    /\ Len(alloc.probes) = 3

-----------------------------------------------------------------------------
(* Properties of the client *)

\* C30: if connect() rejects, because the handshake failed or because the
\* capability fetch after it failed, the client is left not connected:
\* isConnected() is false, no session is held, and invokeTool and getContext
\* refuse with "Not connected to server" without sending a request; the
\* client is connected only by a connect() that completes successfully (it
\* may already say so while that connect() is still in progress), and until
\* disconnect().
C30_ConnectFailure ==
    /\ client.connect = "rejected" =>
        /\ ~client.connected
        /\ ~client.hasSession
        /\ client.call.op # "none" =>
            client.call.outcome = "refused" /\ client.call.message = M_NotConnected
    /\ client.connected => client.connect \in {"pending", "resolved"}

====
